---- MODULE Spec2Model ----
(***************************************************************************)
(* Volatility engine, threshold registry, message envelopes, message bus,  *)
(* consumers, producers and orchestrator of finance_monitor.               *)
(*                                                                         *)
(* Python floats are modelled as exact rationals [num, den] in lowest      *)
(* terms with den > 0, so that "a change exactly equal to the threshold"   *)
(* is a case the model can produce.  Prices are integers (a price unit of  *)
(* the instrument's tick size).  Timestamps are integers (days); a tick    *)
(* also carries the Python type of its timestamp field, because            *)
(* analyze_daily_volatility and analyze_weekly_volatility apply operations *)
(* to it that are defined for one type only.                               *)
(***************************************************************************)
EXTENDS Integers, Sequences, FiniteSets, Bags, TLC

VARIABLES
    price_history,    \* VolatilityAnalyzer.price_history: symbol_key -> PriceData
    db,               \* table price_data of market_data.db: a bag of rows
    threshold_cache,  \* ThresholdManager.threshold_cache: cache key -> threshold
    snapshot,         \* the mapping a caller holds from its last get_all_thresholds()
    last_analysis,    \* the last analyze_*_volatility call: argument, locals, outcome
    last_lookup,      \* the last ThresholdManager call: operation, key, returned value
    analyzed,         \* history: symbol_key -> the last tick analyze_minute_volatility was called with
    stored,           \* history: cache key -> the last threshold written under it
    before,           \* history: what the key of the last minute call held before that call
    envelope,         \* the envelope object a caller constructed last
    wire,             \* what to_dict() returned for it
    decoded,          \* what from_dict() did with that dict: the exception or the object
    workers,          \* subscription thread -> "unstarted", "started", "listening" or "dead"
    subscribed,       \* Redis: the (thread, channel) subscriptions
    inboxes,          \* subscription thread -> the messages its connection has not read yet
    published,        \* history: the MessageQueue.publish calls, in order
    subscribed_at,    \* history: thread -> the number of publish calls made before it subscribed
    handled,          \* history: thread -> the calls of its handler, in order
    sent,             \* history: the messages given to WeChatNotifier._send_wecom_message
    consumers,        \* consumer name -> the consumer object (is_running)
    last_process,     \* the last process_message call made from outside the bus
    fed,              \* history: symbol_key -> the last tick given to VolatilityConsumer.process_message
    app,              \* the ProducerConsumerApp object and the position of the main thread in run()
    producers,        \* producer name -> the producer object (is_running, its scheduler and job)
    tasks,            \* the threads _run_production_task has started, in order
    threads,          \* context -> its position in analyze_minute_volatility and its locals
    returns,          \* history: the analyze_minute_volatility calls of the contexts, as they returned
    last_stop,        \* the last stop_consumption call: the consumer, the exception, the publish calls before it
    rendered,         \* the last WeChatNotifier.send_alert call: the alert, the message, the result
    orphans,          \* thread name -> the threads of earlier start_consumption calls that still run
    stop_calls,       \* the stop_system calls of the main thread and what they have done
    production_stops  \* producer -> the runs begun and the publish calls made when it was stopped

engineVars == <<price_history, db, threshold_cache, snapshot, last_analysis, last_lookup,
                analyzed, stored, before>>

envelopeVars == <<envelope, wire, decoded>>

busVars == <<workers, subscribed, inboxes, published, subscribed_at, handled, sent, consumers>>

consumerVars == <<last_process, fed>>

messagingVars == <<envelopeVars, busVars, consumerVars>>

systemVars == <<app, producers, tasks>>

threadVars == <<threads, returns>>

vars == <<engineVars, messagingVars, systemVars, threadVars, last_stop, rendered, orphans,
         stop_calls, production_stops>>

----------------------------------------------------------------------------
(* Bounds of the model                                                     *)

\* closes range over 0 and 100 - MaxMove .. 100 + MaxMove
MaxMove == 2
\* number of rows the price_data table may hold
MaxRows == 2
\* minute ticks carry a timestamp in 1 .. MaxMinute
MaxMinute == 2
\* number of publish calls on the bus
MaxPublished == 2
\* the scheduler fires a producer's job while fewer production tasks than this
\* have been started
MaxTasks == 1

\* analyze_minute_volatility calls the contexts make in all
MaxCalls == 2

\* production runs of a producer on its own
MaxRuns == 2

\* threads of earlier start_consumption calls that one thread name may have
MaxOrphans == 2

\* SIGINT and SIGTERM signals the process receives
MaxSignals == 2

----------------------------------------------------------------------------
(* Rationals standing for Python floats                                    *)

Abs(x) == IF x < 0 THEN -x ELSE x

RECURSIVE GCD(_, _)
GCD(a, b) == IF b = 0 THEN a ELSE GCD(b, a % b)

\* n / d in lowest terms, d # 0
Rat(n, d) ==
    LET g == GCD(Abs(n), Abs(d))
        s == IF d < 0 THEN -1 ELSE 1
    IN  [num |-> (s * n) \div g, den |-> (s * d) \div g]

\* a decimal literal with one fractional digit, written in tenths: 1.5 is Dec(15)
Dec(tenths) == Rat(tenths, 10)

RatAbs(r) == [num |-> Abs(r.num), den |-> r.den]

RatGeq(a, b) == a.num * b.den >= b.num * a.den

Zero == Rat(0, 1)

----------------------------------------------------------------------------
(* Python dict operations                                                  *)

EmptyDict == << >>

DictSet(d, k, v) == [x \in (DOMAIN d) \cup {k} |-> IF x = k THEN v ELSE d[x]]

\* dict.get(k, default): the value, and the dict afterwards (get does not insert)
DictSetDefault(d, k, default) ==
    [value |-> IF k \in DOMAIN d THEN d[k] ELSE default,
     dict  |-> IF k \in DOMAIN d THEN d ELSE DictSet(d, k, default)]

DictGet(d, k, default) ==
    [value |-> IF k \in DOMAIN d THEN d[k] ELSE default,
     dict  |-> d]

----------------------------------------------------------------------------
(* config/settings.py                                                      *)

Cfg(f, s, m, t) == [frequency |-> f, symbol |-> s, market |-> m, threshold |-> Dec(t)]

MONITOR_CONFIG ==
    { Cfg("minute", "00700", "HK", 15),      Cfg("minute", "600519", "SH", 15),
      Cfg("minute", "AAPL", "US", 20),       Cfg("minute", "TSLA", "US", 20),
      Cfg("minute", "BTCUSDT", "CRYPTO", 30), Cfg("minute", "ETHUSDT", "CRYPTO", 30),
      Cfg("minute", "AU0", "FUT", 10),       Cfg("minute", "CL", "FUT", 15),
      Cfg("daily", "000300", "SH", 30),      Cfg("daily", "399006", "SZ", 40),
      Cfg("daily", "NDX", "US", 25),
      Cfg("daily", "BTCUSDT", "CRYPTO", 80), Cfg("daily", "ETHUSDT", "CRYPTO", 100),
      Cfg("daily", "AU0", "FUT", 25),        Cfg("daily", "CL", "FUT", 30),
      Cfg("weekly", "000300", "SH", 50),     Cfg("weekly", "NDX", "US", 40),
      Cfg("weekly", "BTCUSDT", "CRYPTO", 150), Cfg("weekly", "ETHUSDT", "CRYPTO", 180),
      Cfg("weekly", "AU0", "FUT", 40) }

----------------------------------------------------------------------------
(* core/threshold_manager.py                                               *)

_get_cache_key(symbol, market, frequency) ==
    symbol \o "_" \o market \o "_" \o frequency

_build_threshold_cache ==
    LET keys == { _get_cache_key(a.symbol, a.market, a.frequency) : a \in MONITOR_CONFIG }
    IN  [k \in keys |->
            (CHOOSE a \in MONITOR_CONFIG :
                _get_cache_key(a.symbol, a.market, a.frequency) = k).threshold]

_get_default_threshold_all2(frequency) == Dec(20)

_get_default_threshold(frequency) ==
    CASE frequency = "minute" -> Dec(20)
      [] frequency = "daily"  -> Dec(30)
      [] frequency = "weekly" -> Dec(50)
      [] OTHER                -> Dec(20)

\* the returned value and the registry after the call
get_threshold(cache, symbol, frequency, market) ==
    DictGet(cache, _get_cache_key(symbol, market, frequency),
            _get_default_threshold(frequency))

update_threshold(cache, symbol, market, frequency, threshold) ==
    DictSet(cache, _get_cache_key(symbol, market, frequency), threshold)

\* the returned mapping, and whether it is the registry's own dict object
get_all_thresholds_alias(cache) == [mapping |-> cache, shared |-> TRUE]

get_all_thresholds(cache) == [mapping |-> cache, shared |-> FALSE]

----------------------------------------------------------------------------
(* models/market_data.py                                                   *)

\* PriceData.  open, high, low and volume are left out: neither the analyzer
\* nor the registry reads them.  ts_type is the Python type of the timestamp
\* attribute ("datetime" as the dataclass declares and every constructor call
\* in the repository passes, or "str").
PriceData(symbol, market, timestamp, ts_type, close, frequency) ==
    [symbol |-> symbol, market |-> market, timestamp |-> timestamp,
     ts_type |-> ts_type, close |-> close, frequency |-> frequency]

NoTick == PriceData("", "", 0, "datetime", 0, "")

\* VolatilityAlert.  timestamp is datetime.now() and volume is None in every
\* alert the analyzer builds; both are left out.
VolatilityAlert(symbol, name, frequency, current_change, threshold, current_price, previous_price) ==
    [symbol |-> symbol, name |-> name, frequency |-> frequency,
     current_change |-> current_change, threshold |-> threshold,
     current_price |-> current_price, previous_price |-> previous_price]

NoAlert == VolatilityAlert("", "", "", Zero, Zero, 0, 0)

\* MarketDataDB.save_price_data: INSERT of one row
save_price_data(table, price_data) == table (+) SetToBag({price_data})

\* MarketDataDB.get_historical_prices: the rows of (symbol, market, frequency)
\* with start_date <= timestamp <= end_date, ORDER BY timestamp ASC.  SQL leaves
\* the order of rows with equal timestamps open, so this is the set of the
\* possible result lists.
get_historical_prices(table, symbol, market, frequency, start_date, end_date) ==
    LET rows == { r \in BagToSet(table) :
                    /\ r.symbol = symbol
                    /\ r.market = market
                    /\ r.frequency = frequency
                    /\ start_date <= r.timestamp
                    /\ r.timestamp <= end_date }
        n == BagCardinality([r \in rows |-> table[r]])
    IN  { l \in [1..n -> rows] :
            /\ \A r \in rows : Cardinality({ i \in 1..n : l[i] = r }) = table[r]
            /\ \A i, j \in 1..n : i < j => l[i].timestamp <= l[j].timestamp }

----------------------------------------------------------------------------
(* core/analyzers/volatility_analyzer.py                                   *)

calculate_change_percent_of_current(current, previous) ==
    IF previous = 0 THEN Zero
    ELSE IF current = 0 THEN Zero ELSE Rat((current - previous) * 100, current)

calculate_change_percent(current, previous) ==
    IF previous = 0 THEN Zero ELSE Rat((current - previous) * 100, previous)

\* abs(change_percent) >= threshold
breaches_strict(change_percent, threshold) ==
    ~RatGeq(threshold, RatAbs(change_percent))

breaches(change_percent, threshold) == RatGeq(RatAbs(change_percent), threshold)

\* VolatilityAlert(symbol=, name=symbol, frequency=, current_change=change_percent,
\*                 threshold=, current_price=current.close, previous_price=previous.close)
make_alert_abs(current_data, frequency, change_percent, threshold, previous_close) ==
    VolatilityAlert(current_data.symbol, current_data.symbol, frequency,
                    RatAbs(change_percent), threshold, current_data.close, previous_close)

make_alert(current_data, frequency, change_percent, threshold, previous_close) ==
    VolatilityAlert(current_data.symbol, current_data.symbol, frequency,
                    change_percent, threshold, current_data.close, previous_close)

symbol_key(current_data) == current_data.market \o "_" \o current_data.symbol

\* What one analysis call leaves behind: its argument, what it returned
\* ("None", "alert", or "raise" for an exception that leaves the method), the
\* alert, and its locals previous_data.close, change_percent and threshold
\* (compared says whether the call got as far as computing them).
Analysis(op, tick, returned, alert, compared, previous_close, change_percent, threshold) ==
    [op |-> op, tick |-> tick, returned |-> returned, alert |-> alert,
     compared |-> compared, previous_close |-> previous_close,
     change_percent |-> change_percent, threshold |-> threshold]

NoAnalysis == Analysis("", NoTick, "None", NoAlert, FALSE, 0, Zero, Zero)

\* analyze_minute_volatility when symbol_key is not in price_history: the if
\* is skipped, the tick is stored, None is returned
minute_first_tick_unrecorded(history, cache, current_data) ==
    [call |-> Analysis("minute", current_data, "None", NoAlert, FALSE, 0, Zero, Zero),
     history |-> history, cache |-> cache]

minute_first_tick(history, cache, current_data) ==
    [call |-> Analysis("minute", current_data, "None", NoAlert, FALSE, 0, Zero, Zero),
     history |-> DictSet(history, symbol_key(current_data), current_data),
     cache |-> cache]

\* analyze_minute_volatility when symbol_key is in price_history
minute_next_tick(history, cache, current_data) ==
    LET previous_data == history[symbol_key(current_data)]
        change_percent == calculate_change_percent(current_data.close, previous_data.close)
        got == get_threshold(cache, current_data.symbol, "minute", current_data.market)
        threshold == got.value
    IN  IF breaches(change_percent, threshold)
        THEN \* return VolatilityAlert(...): the lines after the if do not run
             [call |-> Analysis("minute", current_data, "alert",
                          make_alert(current_data, "minute", change_percent, threshold,
                                     previous_data.close),
                          TRUE, previous_data.close, change_percent, threshold),
              history |-> history, cache |-> got.dict]
        ELSE [call |-> Analysis("minute", current_data, "None", NoAlert,
                          TRUE, previous_data.close, change_percent, threshold),
              history |-> DictSet(history, symbol_key(current_data), current_data),
              cache |-> got.dict]

\* analyze_minute_volatility: the call's record, price_history and the registry afterwards
analyze_minute_volatility(history, cache, current_data) ==
    IF symbol_key(current_data) \in DOMAIN history
    THEN minute_next_tick(history, cache, current_data)
    ELSE minute_first_tick(history, cache, current_data)

\* The body of the try block shared in shape by the daily and the weekly
\* analysis, given the list the store returned.
analyze_history(op, label, cache, current_data, historical_data) ==
    IF Len(historical_data) < 2
    THEN [call |-> Analysis(op, current_data, "None", NoAlert, FALSE, 0, Zero, Zero),
          cache |-> cache]
    ELSE LET previous_data == historical_data[Len(historical_data) - 1]
             change_percent ==
                 calculate_change_percent(current_data.close, previous_data.close)
             got == get_threshold(cache, current_data.symbol, label, current_data.market)
             threshold == got.value
         IN  IF breaches(change_percent, threshold)
             THEN [call |-> Analysis(op, current_data, "alert",
                               make_alert(current_data, label, change_percent,
                                          threshold, previous_data.close),
                               TRUE, previous_data.close, change_percent, threshold),
                   cache |-> got.dict]
             ELSE [call |-> Analysis(op, current_data, "None", NoAlert,
                               TRUE, previous_data.close, change_percent, threshold),
                   cache |-> got.dict]

\* self.price_history after analyze_daily_volatility or
\* analyze_weekly_volatility: neither method reads or writes it
history_after_cached(history, current_data) ==
    DictSet(history, symbol_key(current_data), current_data)

history_after(history, current_data) ==
    history

\* timedelta(days=4)
DailyWindowDays == 4
\* timedelta(weeks=2)
WeeklyWindowWeeks == 2

----------------------------------------------------------------------------
(* core/message_types.py                                                   *)
(*                                                                         *)
(* An object is a function from its attribute names to their values, with  *)
(* "cls" for its class; a dict is a function from its keys.  Keyword       *)
(* arguments are a dict: an argument that takes its default (None) is not  *)
(* in it.                                                                  *)

\* MessageType: the value of each member
MessageType ==
    [PRICE_DATA |-> "price_data", HISTORICAL_PRICE_DATA |-> "historical_price_data",
     VOLATILITY_ALERT |-> "volatility_alert", TASK_REQUEST |-> "task_request",
     TASK_RESULT |-> "task_result", SYSTEM_EVENT |-> "system_event"]

\* MessageType(value): the member with that value; no member raises ValueError
MessageTypeOf(value) ==
    IF \E member \in DOMAIN MessageType : MessageType[member] = value
    THEN [raised |-> "", member |-> CHOOSE member \in DOMAIN MessageType : MessageType[member] = value]
    ELSE [raised |-> "ValueError", member |-> ""]

\* FrequencyType
FrequencyType == [MINUTE |-> "1m", DAILY |-> "1d", WEEKLY |-> "1w"]

\* a datetime: seconds and microseconds
Datetime(sec, us) == [sec |-> sec, us |-> us]

\* datetime.isoformat(): the microseconds are written only when they are not 0
isoformat(dt) == IF dt.us = 0 THEN <<"T", dt.sec>> ELSE <<"T", dt.sec, ".", dt.us>>

\* datetime.fromisoformat(text)
fromisoformat(text) ==
    IF Len(text) = 2 THEN Datetime(text[2], 0) ELSE Datetime(text[2], text[4])

EnvelopeClasses ==
    {"BaseMessage", "PriceDataMessage", "VolatilityAlertMessage", "TaskRequestMessage",
     "SystemEventMessage"}

\* the parameters of each class's __init__ (self left out)
InitParams(cls) ==
    IF cls = "TaskRequestMessage"
    THEN {"task_type", "task_data", "source", "timestamp", "message_id", "message_type"}
    ELSE {"message_type", "source", "payload", "timestamp", "message_id"}

\* those without a default
InitRequired(cls) ==
    CASE cls = "BaseMessage"        -> {"message_type", "source"}
      [] cls = "TaskRequestMessage" -> {"task_type", "task_data", "source"}
      [] OTHER                      -> {"payload", "source"}

\* the default of the message_type parameter of the subclasses
DefaultMessageType(cls) ==
    CASE cls = "VolatilityAlertMessage" -> "VOLATILITY_ALERT"
      [] cls = "TaskRequestMessage"     -> "TASK_REQUEST"
      [] cls = "SystemEventMessage"     -> "SYSTEM_EVENT"
      [] OTHER                          -> "PRICE_DATA"

Arg(kwargs, name, default) == IF name \in DOMAIN kwargs THEN kwargs[name] ELSE default

\* BaseMessage.__init__; fresh holds str(uuid.uuid4()) and datetime.now()
BaseMessage__init__(cls, message_type, source, payload, kwargs, fresh) ==
    [cls          |-> cls,
     message_id   |-> IF Arg(kwargs, "message_id", "") # "" THEN kwargs.message_id ELSE fresh.uuid,
     message_type |-> message_type,
     timestamp    |-> Arg(kwargs, "timestamp", fresh.now),
     source       |-> source,
     payload      |-> payload]

\* cls(**kwargs): Python binds the keywords to the parameters of cls.__init__ and
\* raises TypeError for a keyword that is no parameter and for a missing
\* parameter without default; then the __init__ of the class runs
New(cls, kwargs, fresh) ==
    IF ~ (DOMAIN kwargs \subseteq InitParams(cls)) \/ ~ (InitRequired(cls) \subseteq DOMAIN kwargs)
    THEN [raised |-> "TypeError", value |-> << >>]
    ELSE LET message_type == Arg(kwargs, "message_type", DefaultMessageType(cls))
         IN  [raised |-> "",
              value |->
                IF cls = "TaskRequestMessage"
                THEN [x \in {"cls", "message_id", "message_type", "timestamp", "source",
                             "payload", "task_type"} |->
                        IF x = "task_type" THEN kwargs.task_type
                        ELSE BaseMessage__init__(cls, message_type, kwargs.source,
                                 [task_type |-> kwargs.task_type, task_data |-> kwargs.task_data],
                                 kwargs, fresh)[x]]
                ELSE BaseMessage__init__(cls, message_type, kwargs.source,
                                         Arg(kwargs, "payload", << >>), kwargs, fresh)]

\* dataclasses.fields of an envelope
Fields(message) == DOMAIN message \ {"cls"}

\* BaseMessage.to_dict: asdict(self), then the type by its value and the
\* timestamp in ISO form
to_dict(message) ==
    [x \in Fields(message) |->
        CASE x = "message_type" -> MessageType[message.message_type]
          [] x = "timestamp"    -> isoformat(message.timestamp)
          [] OTHER              -> message[x]]

\* BaseMessage.from_dict as a classmethod of cls: data["message_type"] and
\* data["timestamp"] are replaced, then cls(**data)
from_dict(cls, data, fresh) ==
    IF "message_type" \notin DOMAIN data THEN [raised |-> "KeyError", value |-> << >>]
    ELSE IF MessageTypeOf(data.message_type).raised # ""
    THEN [raised |-> "ValueError", value |-> << >>]
    ELSE IF "timestamp" \notin DOMAIN data THEN [raised |-> "KeyError", value |-> << >>]
    ELSE New(cls,
             [x \in DOMAIN data |->
                CASE x = "message_type" -> MessageTypeOf(data.message_type).member
                  [] x = "timestamp"    -> fromisoformat(data.timestamp)
                  [] OTHER              -> data[x]],
             fresh)

\* what uuid4() and now() give when nothing else is said
Fresh == [uuid |-> "uuid4", now |-> Datetime(9, 9)]

NoEnvelope == New("BaseMessage", [message_type |-> "PRICE_DATA", source |-> ""], Fresh).value

NoWire == [made |-> FALSE, dict |-> << >>]

NotDecoded == [done |-> FALSE, raised |-> "", value |-> << >>]

----------------------------------------------------------------------------
(* core/consumers: process_message of the three consumers                  *)

\* What one process_message call did: the exception that left it ("" for
\* none), the ticks it saved, the (channel, dict) pairs it published, the
\* messages it sent through the webhook, and the analyzer's state afterwards.
Effect(raised, saved, publishes, sends, history, cache) ==
    [raised |-> raised, saved |-> saved, publishes |-> publishes, sends |-> sends,
     history |-> history, cache |-> cache]

\* PriceData.to_dict(); open, high, low and volume are written with the close
\* and 0, the model's tick does not hold them
PriceData_to_dict(tick) ==
    [symbol |-> tick.symbol, market |-> tick.market,
     timestamp |-> isoformat(Datetime(tick.timestamp, 0)),
     open |-> tick.close, high |-> tick.close, low |-> tick.close, close |-> tick.close,
     volume |-> 0, frequency |-> tick.frequency]

\* The PriceData(...) call both price consumers make from price_message: the
\* attributes symbol and market of the envelope object, then the payload keys
price_data_of(price_message) ==
    IF ~ ({"symbol", "market"} \subseteq DOMAIN price_message)
    THEN [raised |-> "AttributeError", tick |-> NoTick]
    ELSE IF ~ ({"timestamp", "open", "high", "low", "close"} \subseteq DOMAIN price_message.payload)
    THEN [raised |-> "KeyError", tick |-> NoTick]
    ELSE [raised |-> "",
          tick |-> PriceData(price_message.symbol, price_message.market,
                             fromisoformat(price_message.payload.timestamp).sec, "datetime",
                             price_message.payload.close,
                             Arg(price_message.payload, "frequency", "1m"))]

\* StorageConsumer.process_message
storage_process_message(message, history, cache) ==
    IF message.message_type # "PRICE_DATA"
    THEN Effect("", << >>, << >>, << >>, history, cache)
    ELSE LET price_message == from_dict("PriceDataMessage", to_dict(message), Fresh)
             price_data == price_data_of(price_message.value)
         IN  IF price_message.raised # ""
             THEN Effect(price_message.raised, << >>, << >>, << >>, history, cache)
             ELSE IF price_data.raised # ""
             THEN Effect(price_data.raised, << >>, << >>, << >>, history, cache)
             ELSE Effect("", <<price_data.tick>>, << >>, << >>, history, cache)

\* the analysis VolatilityConsumer picks by price_message.frequency: the calls
\* it may come back with (the store may order equal timestamps either way)
analyze(member, history, cache, table, tick) ==
    CASE member = "MINUTE" -> { analyze_minute_volatility(history, cache, tick) }
      [] member = "DAILY" ->
            IF tick.ts_type # "str"
            THEN { [call |-> Analysis("daily", tick, "raise", NoAlert, FALSE, 0, Zero, Zero),
                    history |-> history, cache |-> cache] }
            ELSE { [call |-> r.call, history |-> history, cache |-> r.cache] :
                     r \in { analyze_history("daily", "daily", cache, tick, h) :
                               h \in get_historical_prices(table, tick.symbol, tick.market, "1d",
                                         tick.timestamp - DailyWindowDays, tick.timestamp) } }
      [] member = "WEEKLY" ->
            IF tick.ts_type # "datetime"
            THEN { [call |-> Analysis("weekly", tick, "raise", NoAlert, FALSE, 0, Zero, Zero),
                    history |-> history, cache |-> cache] }
            ELSE { [call |-> r.call, history |-> history, cache |-> r.cache] :
                     r \in { analyze_history("weekly", "weekly", cache, tick, h) :
                               h \in get_historical_prices(table, tick.symbol, tick.market, "1w",
                                         tick.timestamp - WeeklyWindowWeeks * 7, tick.timestamp) } }
      [] OTHER -> { [call |-> NoAnalysis, history |-> history, cache |-> cache] }

\* the keyword arguments of the VolatilityAlertMessage(...) call
alert_message_kwargs(alert) ==
    [alert_data |-> [symbol |-> alert.symbol, name |-> alert.name,
                     frequency |-> alert.frequency, current_change |-> alert.current_change,
                     threshold |-> alert.threshold, current_price |-> alert.current_price,
                     previous_price |-> alert.previous_price,
                     timestamp |-> isoformat(Fresh.now)],
     source |-> "VolatilityConsumer"]

\* the if alert: block: the envelope is built and published on
\* MessageType.VOLATILITY_ALERT.value
publish_alert(r) ==
    IF r.call.returned = "raise"
    THEN Effect("TypeError", << >>, << >>, << >>, r.history, r.cache)
    ELSE IF r.call.returned # "alert"
    THEN Effect("", << >>, << >>, << >>, r.history, r.cache)
    ELSE LET alert_message == New("VolatilityAlertMessage", alert_message_kwargs(r.call.alert), Fresh)
         IN  IF alert_message.raised # ""
             THEN Effect(alert_message.raised, << >>, << >>, << >>, r.history, r.cache)
             ELSE Effect("", << >>,
                         << [channel |-> MessageType.VOLATILITY_ALERT,
                             message |-> to_dict(alert_message.value)] >>,
                         << >>, r.history, r.cache)

\* VolatilityConsumer.process_message: the effects it may have
volatility_process_message(message, history, cache, table) ==
    IF message.message_type # "PRICE_DATA"
    THEN { Effect("", << >>, << >>, << >>, history, cache) }
    ELSE LET price_message == from_dict("PriceDataMessage", to_dict(message), Fresh)
             price_data == price_data_of(price_message.value)
         IN  IF price_message.raised # ""
             THEN { Effect(price_message.raised, << >>, << >>, << >>, history, cache) }
             ELSE IF price_data.raised # ""
             THEN { Effect(price_data.raised, << >>, << >>, << >>, history, cache) }
             ELSE IF "frequency" \notin DOMAIN price_message.value
             THEN { Effect("AttributeError", << >>, << >>, << >>, history, cache) }
             ELSE { publish_alert(r) :
                      r \in analyze(price_message.value.frequency, history, cache, table,
                                    price_data.tick) }

\* NotificationConsumer._handle_volatility_alert
_handle_volatility_alert(message, history, cache) ==
    IF ~ ({"symbol", "name", "frequency", "current_change", "threshold", "current_price",
           "previous_price", "timestamp"} \subseteq DOMAIN message.payload)
    THEN Effect("KeyError", << >>, << >>, << >>, history, cache)
    ELSE Effect("", << >>, << >>, << [sent |-> "alert", symbol |-> message.payload.symbol] >>,
                history, cache)

\* NotificationConsumer._handle_system_event
_handle_system_event(message, history, cache) ==
    IF ~ ({"event_type", "event_data"} \subseteq DOMAIN message.payload)
    THEN Effect("KeyError", << >>, << >>, << >>, history, cache)
    ELSE CASE message.payload.event_type = "system_start" ->
                Effect("", << >>, << >>, << [sent |-> "test_message", symbol |-> ""] >>,
                       history, cache)
           [] message.payload.event_type = "system_shutdown" ->
                Effect("", << >>, << >>, << [sent |-> "shutdown", symbol |-> ""] >>,
                       history, cache)
           [] OTHER -> Effect("", << >>, << >>, << >>, history, cache)

\* NotificationConsumer.process_message.  message['message_type'] reads a key:
\* an envelope object has no __getitem__ and the read raises TypeError
notification_process_message(message, history, cache) ==
    IF "cls" \in DOMAIN message
    THEN Effect("TypeError", << >>, << >>, << >>, history, cache)
    ELSE IF "message_type" \notin DOMAIN message
    THEN Effect("KeyError", << >>, << >>, << >>, history, cache)
    ELSE IF MessageTypeOf(message.message_type).raised # ""
    THEN Effect("ValueError", << >>, << >>, << >>, history, cache)
    ELSE LET message_type == MessageTypeOf(message.message_type).member
             alert_message == from_dict("VolatilityAlertMessage", message, Fresh)
             event_message == from_dict("SystemEventMessage", message, Fresh)
         IN  CASE message_type = "VOLATILITY_ALERT" ->
                    IF alert_message.raised # ""
                    THEN Effect(alert_message.raised, << >>, << >>, << >>, history, cache)
                    ELSE _handle_volatility_alert(alert_message.value, history, cache)
               [] message_type = "SYSTEM_EVENT" ->
                    IF event_message.raised # ""
                    THEN Effect(event_message.raised, << >>, << >>, << >>, history, cache)
                    ELSE _handle_system_event(event_message.value, history, cache)
               [] OTHER -> Effect("", << >>, << >>, << >>, history, cache)

Consumers == <<"StorageConsumer", "VolatilityConsumer", "NotificationConsumer">>

\* the message types each consumer passes to BaseConsumer.__init__
message_types(consumer) ==
    CASE consumer = "StorageConsumer"      -> <<"PRICE_DATA">>
      [] consumer = "VolatilityConsumer"   -> <<"PRICE_DATA">>
      [] consumer = "NotificationConsumer" -> <<"VOLATILITY_ALERT", "SYSTEM_EVENT">>

\* consumer.process_message(message): the effects it may have
process_message(consumer, message, history, cache, table) ==
    CASE consumer = "StorageConsumer" -> { storage_process_message(message, history, cache) }
      [] consumer = "VolatilityConsumer" ->
            volatility_process_message(message, history, cache, table)
      [] consumer = "NotificationConsumer" ->
            { notification_process_message(message, history, cache) }

----------------------------------------------------------------------------
(* core/message_queue.py, core/consumers/base_consumer.py and the Redis     *)
(* publish/subscribe client they use                                       *)

\* the subscription threads start_consumption creates: one for each message
\* type of each consumer
Threads ==
    UNION { { [consumer |-> Consumers[i], message_type |-> message_types(Consumers[i])[j]] :
                j \in DOMAIN message_types(Consumers[i]) } : i \in DOMAIN Consumers }

\* f"channel_{message_type.value}"
channel_name(message_type) == "channel_" \o MessageType[message_type]

\* json.dumps(obj, default=str) and json.loads(text): the text is not the object
json_dumps(obj) == [json |-> obj]

json_loads(text) == text.json

\* what the Redis client hands out for a message it reads from the connection
PubSubMessage(type, channel, data) ==
    [type |-> type, pattern |-> "None", channel |-> channel, data |-> data]

\* Redis PUBLISH: the message goes to the connections subscribed to the channel
\* at this moment and is kept nowhere else.  subs is the set of
\* (thread, channel) subscriptions, boxes the unread messages of each thread's
\* connection; entry is the message with its number in the order of publishing.
redis_publish_queued(subs, boxes, channel, entry) ==
    [w \in DOMAIN boxes |->
        IF channel_name(w.message_type) = channel THEN Append(boxes[w], entry) ELSE boxes[w]]

redis_publish(subs, boxes, channel, entry) ==
    [w \in DOMAIN boxes |->
        IF <<w, channel>> \in subs THEN Append(boxes[w], entry) ELSE boxes[w]]

\* MessageQueue.publish(channel, message): the log of publish calls and the
\* connections afterwards.  An exception of the client (connected = FALSE) is
\* caught and printed.
publish(subs, boxes, log, channel, message, connected) ==
    LET entry == [seq |-> Len(log) + 1,
                  message |-> PubSubMessage("message", channel, json_dumps(message))]
    IN  [inboxes |-> IF connected THEN redis_publish(subs, boxes, channel, entry) ELSE boxes,
         published |-> Append(log, [channel |-> channel, message |-> message,
                                    receivers |-> IF connected
                                                  THEN { w \in DOMAIN boxes : <<w, channel>> \in subs }
                                                  ELSE {},
                                    caught |-> IF connected THEN "" ELSE "ConnectionError",
                                    raised |-> ""])]

\* One call of the handler _create_message_handler returns: what it was called
\* with, the exception that arose in it, whether that exception left the
\* handler, whether process_message was called, and the effect of that call.
HandlerCall(data, raised, escaped, processed, effect) ==
    [data |-> data, raised |-> raised, escaped |-> escaped, processed |-> processed,
     effect |-> effect]

\* the handler without its try/except
handler_uncaught(consumer, data, history, cache, table) ==
    LET message == from_dict("BaseMessage", data, Fresh)
    IN  IF message.raised # ""
        THEN { HandlerCall(data, message.raised, TRUE, FALSE,
                           Effect(message.raised, << >>, << >>, << >>, history, cache)) }
        ELSE { HandlerCall(data, effect.raised, effect.raised # "", TRUE, effect) :
                 effect \in process_message(consumer, message.value, history, cache, table) }

\* BaseConsumer._create_message_handler(...)(data): the calls it may make
handler(consumer, data, history, cache, table) ==
    LET message == from_dict("BaseMessage", data, Fresh)
    IN  IF message.raised # ""
        THEN { HandlerCall(data, message.raised, FALSE, FALSE,
                           Effect(message.raised, << >>, << >>, << >>, history, cache)) }
        ELSE { HandlerCall(data, effect.raised, FALSE, TRUE, effect) :
                 effect \in process_message(consumer, message.value, history, cache, table) }

\* One round of the for loop of MessageQueue.subscribe over pubsub.listen().
\* pubsub.subscribe(**{channel: callback}) registers callback as the handler of
\* the channel: the client calls a channel's handler with the message it read
\* and listen() does not yield that message, so the loop body (json.loads, then
\* callback(data)) runs only for a message of a channel without handler.  A
\* subscribe confirmation is yielded and skipped by the loop body.
listen_round(w, message, registered, history, cache, table) ==
    IF message.type = "message" /\ registered
    THEN handler(w.consumer, message, history, cache, table)
    ELSE IF message.type = "message"
    THEN handler(w.consumer, json_loads(message.data), history, cache, table)
    ELSE { }

\* what a process_message call made from outside the bus leaves behind: the
\* consumer, the envelope, the exception that left the call, what it saved,
\* published and sent, and whether the tick breaches the threshold against the
\* tick the consumer was given before it for the same instrument
Process(consumer, message, effect, breach) ==
    [consumer |-> consumer, message |-> message, raised |-> effect.raised,
     saved |-> effect.saved, publishes |-> effect.publishes, sends |-> effect.sends,
     breach |-> breach]

NoProcess ==
    Process("", NoEnvelope, Effect("", << >>, << >>, << >>, EmptyDict, EmptyDict), FALSE)

----------------------------------------------------------------------------
(* core/producers and app_producer_consumer.py: the producers and the      *)
(* orchestrator                                                            *)

\* the producer classes setup_producers names in the lines it appends with
ProducerNames == {"USStockDailyProducer", "CryptoProducer"}

\* BaseProducer.__init__: not running, a BackgroundScheduler that has not been
\* started and holds no job
NewProducer == [is_running |-> FALSE, scheduler_running |-> FALSE, job |-> FALSE]

\* ProducerConsumerApp.__init__, with the main thread before run(): started and
\* stopped count the producers the loops of start_system and stop_system have
\* passed
NewApp ==
    [pc |-> "init", is_running |-> FALSE, run_immediately |-> TRUE,
     ignore_schedule |-> FALSE, producers |-> << >>, started |-> 0, stopped |-> 0]

\* USStockDailyProducer.produce_data for one symbol whose fetched history is
\* historical_data: the envelope of the last tick is built inside the
\* try/except of the loop over the symbols, and a symbol whose envelope raises
\* is skipped
usstock_daily_produce_data(historical_data) ==
    IF historical_data = << >>
    THEN << >>
    ELSE LET data == historical_data[Len(historical_data)]
             message == New("PriceDataMessage",
                            [symbol |-> data.symbol, market |-> "US",
                             frequency |-> FrequencyType.DAILY,
                             price_data |-> PriceData_to_dict(data),
                             source |-> "USStockDailyProducer",
                             timestamp |-> Fresh.now], Fresh)
         IN  IF message.raised # "" THEN << >> ELSE << message.value >>

\* CryptoProducer.produce_data for one symbol: the last tick of the fetched
\* history is an envelope of the latest kind, the others of the historical kind
crypto_produce_data(historical_data) ==
    [i \in DOMAIN historical_data |->
        New("PriceDataMessage",
            [payload |-> PriceData_to_dict(historical_data[i]),
             timestamp |-> Datetime(historical_data[i].timestamp, 0),
             message_type |-> IF i = Len(historical_data)
                              THEN "PRICE_DATA" ELSE "HISTORICAL_PRICE_DATA",
             source |-> "CryptoProducer"], Fresh).value]

\* producer.produce_data()
produce_data(producer, historical_data) ==
    CASE producer = "USStockDailyProducer" -> usstock_daily_produce_data(historical_data)
      [] producer = "CryptoProducer"       -> crypto_produce_data(historical_data)

\* BaseProducer.publish_message(message): the channel and the dictionary it
\* gives to mq.publish
publish_message(message) ==
    [channel |-> channel_name(message.message_type), message |-> to_dict(message)]

\* BaseProducer.start_production: the producer afterwards, and whether
\* _run_production_task was called
start_production(producer, run_immediately, ignore_schedule) ==
    [producer |-> [is_running |-> TRUE,
                   scheduler_running |-> IF ignore_schedule THEN producer.scheduler_running ELSE TRUE,
                   job |-> IF ignore_schedule THEN producer.job ELSE TRUE],
     task |-> run_immediately]

\* stop_production without the shutdown of the scheduler
stop_production_flag_only(producer) == [producer EXCEPT !.is_running = FALSE]

\* BaseProducer.stop_production
stop_production(producer) ==
    [producer EXCEPT !.scheduler_running = FALSE, !.is_running = FALSE]

\* the methods of class MessageQueue
MessageQueueMethods ==
    {"publish", "subscribe", "push_to_queue", "pop_from_queue", "get_queue_length"}

\* BaseConsumer.stop_consumption: is_running is cleared, then mq.unsubscribe
\* is called for the consumer's first message type
stop_consumption(consumer, object) ==
    [consumer |-> [object EXCEPT !.is_running = FALSE],
     raised |-> IF message_types(consumer) = << >> \/ "unsubscribe" \in MessageQueueMethods
                THEN "" ELSE "AttributeError"]

\* the loop of stop_system over self.consumers, from the i-th: it ends with
\* the first exception
RECURSIVE stop_consumers(_, _)
stop_consumers(objects, i) ==
    IF i > Len(Consumers)
    THEN [consumers |-> objects, raised |-> ""]
    ELSE LET stop == stop_consumption(Consumers[i], objects[Consumers[i]])
             after == [objects EXCEPT ![Consumers[i]] = stop.consumer]
         IN  IF stop.raised # ""
             THEN [consumers |-> after, raised |-> stop.raised]
             ELSE stop_consumers(after, i + 1)

\* the envelope start_system builds for the system_start event
startup_message(names, run_immediately, ignore_schedule) ==
    New("SystemEventMessage",
        [payload |-> [event_type |-> "system_start",
                      event_data |-> [timestamp |-> isoformat(Fresh.now),
                                      producers |-> names,
                                      consumers |-> Consumers,
                                      run_immediately |-> run_immediately,
                                      ignore_schedule |-> ignore_schedule]],
         source |-> "ProducerConsumerApp"], Fresh)

\* the envelope stop_system builds for the system_shutdown event
shutdown_message ==
    New("SystemEventMessage",
        [event_type |-> "system_shutdown",
         event_data |-> [timestamp |-> isoformat(Fresh.now)],
         source |-> "ProducerConsumerApp"], Fresh)

\* stop_system after the loop over the producers: the loop over the consumers,
\* then the shutdown event.  What it leaves: the consumers, the channel and
\* dictionary it publishes (none when an exception arose before), and the
\* exception that leaves stop_system
stop_system_rest(objects) ==
    LET stopped == stop_consumers(objects, 1)
    IN  IF stopped.raised # ""
        THEN [consumers |-> stopped.consumers, publishes |-> << >>, raised |-> stopped.raised]
        ELSE IF shutdown_message.raised # ""
        THEN [consumers |-> stopped.consumers, publishes |-> << >>,
              raised |-> shutdown_message.raised]
        ELSE [consumers |-> stopped.consumers,
              publishes |-> << [channel |-> MessageType.SYSTEM_EVENT,
                                message |-> to_dict(shutdown_message.value)] >>,
              raised |-> ""]

\* a thread _run_production_task started: the producer, the caller
\* (start_production or the scheduler's job), where it is in
\* _production_wrapper, the messages it has still to publish, the number it
\* has published, and the exception the except clause of _production_wrapper
\* caught
Task(producer, by, stage, messages) ==
    [producer |-> producer, by |-> by, stage |-> stage, messages |-> messages,
     published |-> 0, caught |-> ""]

\* whether produce_data of the producer lets an exception out: CryptoProducer
\* logs and raises it again, USStockDailyProducer logs it and returns the
\* messages it has
produce_data_raises(producer) == producer = "CryptoProducer"

\* _production_wrapper when produce_data raises: nothing is published, the
\* exception is logged, the coroutine and with it the thread end
production_retried(task) ==
    [task EXCEPT !.stage = "started", !.caught = "Exception"]

production_failed(task) ==
    [task EXCEPT !.stage = "done", !.messages = << >>, !.caught = "Exception"]

----------------------------------------------------------------------------
(* Inputs                                                                  *)

Closes == {0} \cup ((100 - MaxMove)..(100 + MaxMove))

\* minute ticks: every close and timestamp for AAPL (threshold 2.0), and a
\* second instrument (BTCUSDT, threshold 3.0) with moves of 1% and of 2*MaxMove %
MinuteTicks ==
    { PriceData("AAPL", "US", t, "datetime", c, "1m") : t \in 1..MaxMinute, c \in Closes }
    \cup
    { PriceData("BTCUSDT", "CRYPTO", 1, "datetime", c, "1m") :
        c \in {100, 101, 100 + 2 * MaxMove} }

\* the engine as a whole: a few minute ticks, daily and weekly bars of one
\* instrument (AAPL has no daily or weekly entry: defaults 3.0 and 5.0)
EngineMinuteTicks ==
    { PriceData("AAPL", "US", 1, "datetime", c, "1m") : c \in {0, 100, 103} }

HistoryTimes == {20, 22}

TsTypes == {"datetime", "str"}

HistoryTicks(frequency) ==
    { PriceData("AAPL", "US", t, ty, c, frequency) :
        t \in HistoryTimes, ty \in TsTypes, c \in {100, 100 + 3 * MaxMove} }

\* the ticks the fetchers save: their timestamps are datetime objects
StoredTicks ==
    { PriceData("AAPL", "US", t, "datetime", c, f) :
        t \in HistoryTimes, c \in {100, 100 + 3 * MaxMove}, f \in {"1d", "1w"} }

----------------------------------------------------------------------------
(* State machine                                                           *)

\* The execution contexts that call analyze_minute_volatility of the one
\* VolatilityAnalyzer of MarketMonitorApp: the thread of the crypto websocket
\* (_handle_crypto_websocket_data) and the minute task (execute_minute_monitoring).
Contexts == {"websocket", "minute_task"}

\* a context outside analyze_minute_volatility
NewCall == [pc |-> "idle", current_data |-> NoTick, previous_data |-> NoTick]

\* the ticks the two contexts analyze: one crypto instrument (threshold 3.0)
ConcurrentTicks == { t \in MinuteTicks : t.market = "CRYPTO" }

\* no send_alert call yet
NoRender == [done |-> FALSE, alert |-> NoAlert, message |-> << >>, returned |-> FALSE]

\* the main thread before any stop_system call: no call on the stack, the
\* finally clause of run() not entered, no signal received, nothing done
NoStopCalls == [stack |-> << >>, finally |-> FALSE, signals |-> 0, begun |-> 0, log |-> << >>]

\* a producer whose stop_production has not been called
NotStopped == [stopped |-> FALSE, runs |-> 0, published |-> 0]

\* no stop_consumption call yet
NoStop == [consumer |-> "", raised |-> "", published |-> 0]

NoLookup == [op |-> "", key |-> "", frequency |-> "", value |-> Zero]

NoSnapshot == [mapping |-> EmptyDict, shared |-> FALSE, held |-> FALSE]

\* What held when the last analysis was called.  seen: a minute tick of the key
\* had been analyzed, and last_close is its close; cached: price_history held
\* the key, and cached_close is the close it held (both FALSE for a daily or
\* weekly call); threshold: what get_threshold gave for the tick's symbol and
\* market at the frequency of the analysis; historical_data: the list the store
\* returned to a daily or weekly call (empty when the store was not reached);
\* price_history: the analyzer's price_history at the call.
NoBefore ==
    [seen |-> FALSE, last_close |-> 0, cached |-> FALSE, cached_close |-> 0,
     threshold |-> Zero, historical_data |-> << >>, price_history |-> EmptyDict]

BeforeMinute(tick) ==
    LET key == symbol_key(tick)
    IN  [seen |-> key \in DOMAIN analyzed,
         last_close |-> IF key \in DOMAIN analyzed THEN analyzed[key].close ELSE 0,
         cached |-> key \in DOMAIN price_history,
         cached_close |-> IF key \in DOMAIN price_history THEN price_history[key].close ELSE 0,
         threshold |-> get_threshold(threshold_cache, tick.symbol, "minute", tick.market).value,
         historical_data |-> << >>,
         price_history |-> price_history]

BeforeHistory(tick, label, historical_data) ==
    [NoBefore EXCEPT
        !.threshold = get_threshold(threshold_cache, tick.symbol, label, tick.market).value,
        !.historical_data = historical_data,
        !.price_history = price_history]

Init ==
    /\ price_history = EmptyDict
    /\ db = EmptyBag
    /\ threshold_cache = _build_threshold_cache
    /\ snapshot = NoSnapshot
    /\ last_analysis = NoAnalysis
    /\ last_lookup = NoLookup
    /\ analyzed = EmptyDict
    /\ stored = _build_threshold_cache
    /\ before = NoBefore
    /\ envelope = NoEnvelope
    /\ wire = NoWire
    /\ decoded = NotDecoded
    /\ workers = [w \in Threads |-> "unstarted"]
    /\ subscribed = {}
    /\ inboxes = [w \in Threads |-> << >>]
    /\ published = << >>
    /\ subscribed_at = [w \in Threads |-> 0]
    /\ handled = [w \in Threads |-> << >>]
    /\ sent = << >>
    /\ consumers = [c \in {Consumers[i] : i \in DOMAIN Consumers} |-> [is_running |-> FALSE]]
    /\ last_process = NoProcess
    /\ fed = EmptyDict
    /\ app = NewApp
    /\ producers = [p \in ProducerNames |-> NewProducer]
    /\ tasks = << >>
    /\ threads = [c \in Contexts |-> NewCall]
    /\ returns = << >>
    /\ last_stop = NoStop
    /\ rendered = NoRender
    /\ orphans = [w \in Threads |-> 0]
    /\ stop_calls = NoStopCalls
    /\ production_stops = [name \in ProducerNames |-> NotStopped]

\* a write to the registry reaches the caller's mapping when both are one object
Aliased(snap, cache) ==
    IF snap.held /\ snap.shared THEN [snap EXCEPT !.mapping = cache] ELSE snap

AnalyzeMinute(tick) ==
    LET r == analyze_minute_volatility(price_history, threshold_cache, tick)
    IN  /\ price_history' = r.history
        /\ threshold_cache' = r.cache
        /\ snapshot' = Aliased(snapshot, r.cache)
        /\ last_analysis' = r.call
        /\ analyzed' = DictSet(analyzed, symbol_key(tick), tick)
        /\ before' = BeforeMinute(tick)
        /\ UNCHANGED <<messagingVars, systemVars, threadVars, last_stop, rendered, orphans,
                       stop_calls, production_stops>>
        /\ UNCHANGED <<db, last_lookup, stored>>

\* analyze_daily_volatility.  fromisoformat(current_data.timestamp) stands before
\* the try block: it raises TypeError for a timestamp that is not a str.
\* store_fails: the store call raises; the except clause logs and None is returned.
AnalyzeDaily(tick, store_fails) ==
    /\ IF tick.ts_type # "str"
       THEN /\ last_analysis' = Analysis("daily", tick, "raise", NoAlert, FALSE, 0, Zero, Zero)
            /\ before' = BeforeHistory(tick, "daily", << >>)
            /\ UNCHANGED threshold_cache
       ELSE IF store_fails
       THEN /\ last_analysis' = Analysis("daily", tick, "None", NoAlert, FALSE, 0, Zero, Zero)
            /\ before' = BeforeHistory(tick, "daily", << >>)
            /\ UNCHANGED threshold_cache
       ELSE \E historical_data \in get_historical_prices(db, tick.symbol, tick.market, "1d",
                                        tick.timestamp - DailyWindowDays, tick.timestamp) :
               LET r == analyze_history("daily", "daily", threshold_cache, tick, historical_data)
               IN  /\ last_analysis' = r.call
                   /\ before' = BeforeHistory(tick, "daily", historical_data)
                   /\ threshold_cache' = r.cache
    /\ snapshot' = Aliased(snapshot, threshold_cache')
    /\ price_history' = history_after(price_history, tick)
    /\ UNCHANGED <<messagingVars, systemVars, threadVars, last_stop, rendered, orphans,
                   stop_calls, production_stops>>
    /\ UNCHANGED <<db, last_lookup, analyzed, stored>>

\* analyze_weekly_volatility.  current_data.timestamp - timedelta(weeks=2) stands
\* before the try block: it raises TypeError for a str timestamp.
AnalyzeWeekly(tick, store_fails) ==
    /\ IF tick.ts_type # "datetime"
       THEN /\ last_analysis' = Analysis("weekly", tick, "raise", NoAlert, FALSE, 0, Zero, Zero)
            /\ before' = BeforeHistory(tick, "weekly", << >>)
            /\ UNCHANGED threshold_cache
       ELSE IF store_fails
       THEN /\ last_analysis' = Analysis("weekly", tick, "None", NoAlert, FALSE, 0, Zero, Zero)
            /\ before' = BeforeHistory(tick, "weekly", << >>)
            /\ UNCHANGED threshold_cache
       ELSE \E historical_data \in get_historical_prices(db, tick.symbol, tick.market, "1w",
                                        tick.timestamp - WeeklyWindowWeeks * 7, tick.timestamp) :
               LET r == analyze_history("weekly", "weekly", threshold_cache, tick, historical_data)
               IN  /\ last_analysis' = r.call
                   /\ before' = BeforeHistory(tick, "weekly", historical_data)
                   /\ threshold_cache' = r.cache
    /\ snapshot' = Aliased(snapshot, threshold_cache')
    /\ price_history' = history_after(price_history, tick)
    /\ UNCHANGED <<messagingVars, systemVars, threadVars, last_stop, rendered, orphans,
                   stop_calls, production_stops>>
    /\ UNCHANGED <<db, last_lookup, analyzed, stored>>

\* a fetcher saves a tick it fetched: MarketDataDB.save_price_data
SavePriceData(tick) ==
    /\ BagCardinality(db) < MaxRows
    /\ db' = save_price_data(db, tick)
    /\ UNCHANGED <<messagingVars, systemVars, threadVars, last_stop, rendered, orphans,
                   stop_calls, production_stops>>
    /\ UNCHANGED <<price_history, threshold_cache, snapshot, last_analysis, last_lookup,
                   analyzed, stored, before>>

Lookup(op, symbol, market, frequency, value) ==
    [op |-> op, key |-> _get_cache_key(symbol, market, frequency),
     frequency |-> frequency, value |-> value]

UpdateThreshold(symbol, market, frequency, threshold) ==
    /\ threshold_cache' = update_threshold(threshold_cache, symbol, market, frequency, threshold)
    /\ snapshot' = Aliased(snapshot, threshold_cache')
    /\ stored' = DictSet(stored, _get_cache_key(symbol, market, frequency), threshold)
    /\ last_lookup' = Lookup("update_threshold", symbol, market, frequency, threshold)
    /\ UNCHANGED <<messagingVars, systemVars, threadVars, last_stop, rendered, orphans,
                   stop_calls, production_stops>>
    /\ UNCHANGED <<price_history, db, last_analysis, analyzed, before>>

GetThreshold(symbol, frequency, market) ==
    LET got == get_threshold(threshold_cache, symbol, frequency, market)
    IN  /\ threshold_cache' = got.dict
        /\ snapshot' = Aliased(snapshot, got.dict)
        /\ last_lookup' = Lookup("get_threshold", symbol, market, frequency, got.value)
        /\ UNCHANGED <<messagingVars, systemVars, threadVars, last_stop, rendered, orphans,
                       stop_calls, production_stops>>
        /\ UNCHANGED <<price_history, db, last_analysis, analyzed, stored, before>>

GetAllThresholds ==
    LET r == get_all_thresholds(threshold_cache)
    IN  /\ snapshot' = [mapping |-> r.mapping, shared |-> r.shared, held |-> TRUE]
        /\ last_lookup' = [op |-> "get_all_thresholds", key |-> "", frequency |-> "",
                           value |-> Zero]
        /\ UNCHANGED <<messagingVars, systemVars, threadVars, last_stop, rendered, orphans,
                       stop_calls, production_stops>>
        /\ UNCHANGED <<price_history, db, threshold_cache, last_analysis, analyzed, stored,
                       before>>

\* a caller assigns into the mapping get_all_thresholds returned to it; the
\* registry sees the write when the mapping is the registry's own dict
CallerWrites(key, value) ==
    /\ snapshot.held
    /\ snapshot' = [snapshot EXCEPT !.mapping = DictSet(snapshot.mapping, key, value)]
    /\ threshold_cache' = IF snapshot.shared THEN snapshot'.mapping ELSE threshold_cache
    /\ last_lookup' = [op |-> "caller_write", key |-> key, frequency |-> "", value |-> value]
    /\ UNCHANGED <<messagingVars, systemVars, threadVars, last_stop, rendered, orphans,
                   stop_calls, production_stops>>
    /\ UNCHANGED <<price_history, db, last_analysis, analyzed, stored, before>>

\* the engine: the three analyses over a store that fills up
Next ==
    \/ \E tick \in EngineMinuteTicks : AnalyzeMinute(tick)
    \/ \E tick \in HistoryTicks("1d"), store_fails \in BOOLEAN : AnalyzeDaily(tick, store_fails)
    \/ \E tick \in HistoryTicks("1w"), store_fails \in BOOLEAN : AnalyzeWeekly(tick, store_fails)
    \/ \E tick \in StoredTicks : SavePriceData(tick)
    \/ UpdateThreshold("AAPL", "US", "weekly", Dec(40))

Spec == Init /\ [][Next]_vars

\* the minute analysis alone, over every close
NextMinute ==
    \/ \E tick \in MinuteTicks : AnalyzeMinute(tick)
    \/ UpdateThreshold("AAPL", "US", "minute", Dec(10))

SpecMinute == Init /\ [][NextMinute]_vars

\* the registry alone
RegistrySymbols == {"AAPL", "XYZ"}

RegistryMarkets == {"US", ""}

RegistryFrequencies == {"minute", "daily", "weekly", "hourly"}

\* threshold values a caller may pass to update_threshold
ThresholdValues == { Dec(-10), Dec(0), Dec(15) }

\* one configured entry and one that the configuration does not hold
RegistryUpdates == { <<"AAPL", "US", "minute">>, <<"XYZ", "", "hourly">> }

NextRegistry ==
    \/ \E s \in RegistrySymbols, f \in RegistryFrequencies, m \in RegistryMarkets :
          GetThreshold(s, f, m)
    \/ \E u \in RegistryUpdates, v \in ThresholdValues : UpdateThreshold(u[1], u[2], u[3], v)
    \/ GetAllThresholds
    \/ CallerWrites(_get_cache_key("AAPL", "US", "minute"), Dec(70))

SpecRegistry == Init /\ [][NextRegistry]_vars

----------------------------------------------------------------------------
(* Properties of the minute analysis (SpecMinute)                          *)

LastTick == last_analysis.tick

LastKey == symbol_key(last_analysis.tick)

MinuteCall == last_analysis.op = "minute"

\* C1: the first tick analyzed at minute frequency for a key returns no alert
\* and is the cached prior tick of that key afterwards, whatever its close and
\* whatever the threshold.
C1_FirstTickRecordedNoAlert ==
    (MinuteCall /\ ~before.seen) =>
        /\ last_analysis.returned = "None"
        /\ LastKey \in DOMAIN price_history
        /\ price_history[LastKey] = LastTick

\* a first tick of BTCUSDT, analyzed when AAPL already has history and its
\* threshold has been changed
C1_Witness ==
    /\ MinuteCall /\ ~before.seen
    /\ LastTick.symbol = "BTCUSDT"
    /\ price_history[LastKey] = LastTick
    /\ "US_AAPL" \in DOMAIN price_history
    /\ threshold_cache # _build_threshold_cache

\* C2: after every analyze_minute_volatility call, alert or not, the cached
\* prior tick of the tick's key is that tick: the cache holds, for every key,
\* the most recently analyzed tick of the key.
C2_CacheHoldsLastAnalyzedTick ==
    \A k \in DOMAIN analyzed :
        k \in DOMAIN price_history /\ price_history[k] = analyzed[k]

\* C3: every alert returned for a minute tick that is not the first of its key
\* has previous_price equal to the close of the tick of that key analyzed just
\* before it, and current_price equal to the tick's close.
C3_AlertComparesWithPrecedingTick ==
    (MinuteCall /\ before.seen /\ last_analysis.returned = "alert") =>
        /\ last_analysis.alert.previous_price = before.last_close
        /\ last_analysis.alert.current_price = LastTick.close

\* |current - previous| / previous * 100 >= threshold, without division
\* (previous > 0)
MoveReaches(current, previous, threshold) ==
    Abs(current - previous) * 100 * threshold.den >= threshold.num * previous

\* C4: for a minute tick whose key has a cached prior tick, one alert is
\* returned if and only if abs(change) >= threshold, change being the
\* percentage change of the tick's close against the cached close (0 when that
\* close is 0) and threshold being what get_threshold(symbol, 'minute', market)
\* gave when the tick was analyzed.
C4_AlertIffChangeReachesThreshold ==
    (MinuteCall /\ before.cached) =>
        LET threshold == before.threshold
            reaches == IF before.cached_close = 0
                       THEN threshold.num <= 0
                       ELSE MoveReaches(LastTick.close, before.cached_close, threshold)
        IN  /\ last_analysis.returned \in {"None", "alert"}
            /\ last_analysis.returned = "alert" <=> reaches

\* a change exactly equal to the threshold has fired: 100 -> 102 at 2.0
C4_Witness ==
    /\ MinuteCall /\ before.cached
    /\ last_analysis.returned = "alert"
    /\ before.cached_close = 100 /\ LastTick.close = 102
    /\ last_analysis.threshold = Dec(20)
    /\ last_analysis.change_percent = Dec(20)

----------------------------------------------------------------------------
(* Properties of the engine (Spec)                                         *)

\* C5: an alert carries the signed change as current_change, the threshold that
\* the registry holds for (symbol, market, frequency) as threshold, the tick's
\* close as current_price and the close it was compared with as previous_price.
C5_AlertFields ==
    last_analysis.returned = "alert" =>
        LET a == last_analysis.alert
            p == last_analysis.previous_close
        IN  /\ a.symbol = LastTick.symbol
            /\ a.frequency = last_analysis.op
            /\ a.current_price = LastTick.close
            /\ a.previous_price = p
            /\ MinuteCall => p = before.cached_close
            /\ a.threshold = before.threshold
            /\ p # 0 => /\ a.current_change.num * p
                             = (LastTick.close - p) * 100 * a.current_change.den
                        /\ a.current_change.den > 0
                        /\ (LastTick.close < p) <=> (a.current_change.num < 0)

\* closes 100 then 103 at threshold 2.0: change 3, threshold 2.0, current 103,
\* previous 100
C5_Witness ==
    /\ MinuteCall
    /\ last_analysis.returned = "alert"
    /\ last_analysis.alert =
          VolatilityAlert("AAPL", "AAPL", "minute", Rat(3, 1), Dec(20), 103, 100)

\* C6: the change every analysis computes is calculate_change_percent(current,
\* previous): (current - previous) / previous * 100 for previous > 0, and
\* exactly 0 for previous = 0; minute, daily and weekly alike.
C6_ChangePercent ==
    last_analysis.compared =>
        LET c == LastTick.close
            p == last_analysis.previous_close
            r == last_analysis.change_percent
        IN  /\ last_analysis.op \in {"minute", "daily", "weekly"}
            /\ r.den > 0
            /\ GCD(Abs(r.num), r.den) = 1
            /\ p = 0 => r = Zero
            /\ p > 0 => r.num * p = (c - p) * 100 * r.den
            /\ last_analysis.returned = "alert" => last_analysis.alert.current_change = r

\* a weekly comparison has computed a change that is not a whole number
C6_Witness ==
    /\ last_analysis.compared
    /\ last_analysis.op = "weekly"
    /\ last_analysis.change_percent.den > 1

\* previous = 0 has been compared with a positive close
C6_ZeroPreviousReached ==
    /\ last_analysis.compared
    /\ last_analysis.previous_close = 0
    /\ LastTick.close > 0

----------------------------------------------------------------------------
(* Properties of the threshold registry (SpecRegistry)                     *)

\* C7: get_threshold returns the entry written last under the key of
\* (symbol, market, frequency) when there is one, and otherwise the default of
\* the frequency: 2.0 for minute, 3.0 for daily, 5.0 for weekly.
C7_StoredEntryOrFrequencyDefault ==
    last_lookup.op = "get_threshold" =>
        IF last_lookup.key \in DOMAIN stored
        THEN last_lookup.value = stored[last_lookup.key]
        ELSE /\ last_lookup.frequency = "minute" => last_lookup.value = Dec(20)
             /\ last_lookup.frequency = "daily"  => last_lookup.value = Dec(30)
             /\ last_lookup.frequency = "weekly" => last_lookup.value = Dec(50)

\* a weekly lookup of an instrument that was never configured gave 5.0
C7_Witness ==
    /\ last_lookup.op = "get_threshold"
    /\ last_lookup.key = "XYZ__weekly"
    /\ last_lookup.key \notin DOMAIN stored
    /\ last_lookup.value = Dec(50)

\* an entry written by update_threshold is what a later lookup returned
C7_UpdatedEntryReturned ==
    /\ last_lookup.op = "get_threshold"
    /\ last_lookup.key = "XYZ__hourly"
    /\ last_lookup.value = Dec(15)

\* C8: after any update_threshold calls, with any values, every threshold the
\* registry holds is strictly greater than 0, and so is every value
\* get_threshold returned.
C8_ThresholdsPositive ==
    /\ \A k \in DOMAIN threshold_cache : threshold_cache[k].num > 0
    /\ last_lookup.op = "get_threshold" => last_lookup.value.num > 0

RegistryLookups == RegistrySymbols \X RegistryFrequencies \X RegistryMarkets

\* C9: a get_threshold call leaves the registry as it was, on a hit and on a
\* miss, so that the same call made again returns the same value.
C9_GetThresholdIsPureRead ==
    [][ last_lookup'.op = "get_threshold" =>
          /\ threshold_cache' = threshold_cache
          /\ \A a \in RegistryLookups :
                get_threshold(threshold_cache', a[1], a[2], a[3]).value
                  = get_threshold(threshold_cache, a[1], a[2], a[3]).value
          /\ (last_lookup.op = "get_threshold" /\ last_lookup.key = last_lookup'.key
                /\ last_lookup.frequency = last_lookup'.frequency)
                => last_lookup'.value = last_lookup.value ]_vars

\* a lookup missed, returned the default, and the registry has no entry for its key
C9_Witness ==
    /\ last_lookup.op = "get_threshold"
    /\ last_lookup.key = "XYZ_US_daily"
    /\ last_lookup.value = Dec(30)
    /\ last_lookup.key \notin DOMAIN threshold_cache

\* C10: the mapping get_all_thresholds returned does not change when
\* update_threshold runs afterwards, and a write into it does not change the
\* registry, so not what get_threshold returns.
C10_SnapshotIsACopy ==
    [][ /\ (snapshot.held /\ last_lookup'.op = "update_threshold")
            => snapshot'.mapping = snapshot.mapping
        /\ last_lookup'.op = "caller_write"
            => /\ threshold_cache' = threshold_cache
               /\ \A a \in RegistryLookups :
                     get_threshold(threshold_cache', a[1], a[2], a[3]).value
                       = get_threshold(threshold_cache, a[1], a[2], a[3]).value
        /\ last_lookup'.op = "get_all_thresholds"
            => snapshot'.mapping = threshold_cache ]_vars

\* a caller holds a mapping it has written into, the registry was updated after
\* that, and the two differ in both entries
C10_Witness ==
    /\ snapshot.held
    /\ last_lookup.op = "update_threshold"
    /\ snapshot.mapping["AAPL_US_minute"] = Dec(70)
    /\ threshold_cache["AAPL_US_minute"] = Dec(15)
    /\ "XYZ__hourly" \in DOMAIN threshold_cache
    /\ "XYZ__hourly" \notin DOMAIN snapshot.mapping

----------------------------------------------------------------------------
(* Envelopes: construction, to_dict, from_dict (SpecEnvelope)              *)

EnvelopeTimestamps == { Datetime(5, 0), Datetime(5, 678) }

\* PriceData.to_dict() of a tick, and the payload of a system event
EnvelopePayloads ==
    { [symbol |-> "AAPL", market |-> "US", timestamp |-> isoformat(Datetime(5, 0)),
       close |-> Dec(15), frequency |-> "1d"],
      [event_type |-> "system_start", event_data |-> [timestamp |-> isoformat(Datetime(5, 678))]] }

EnvelopeIds == {"id1", ""}

\* the keyword arguments of the constructor calls: every class with every type
EnvelopeInputs ==
    { <<"BaseMessage", [message_type |-> mt, source |-> "s", payload |-> p,
                        timestamp |-> ts, message_id |-> id]>> :
        mt \in DOMAIN MessageType, p \in EnvelopePayloads, ts \in EnvelopeTimestamps,
        id \in EnvelopeIds }
    \cup
    { <<cls, [payload |-> p, source |-> "s", timestamp |-> ts, message_type |-> mt]>> :
        cls \in {"PriceDataMessage", "VolatilityAlertMessage", "SystemEventMessage"},
        mt \in DOMAIN MessageType, p \in EnvelopePayloads, ts \in EnvelopeTimestamps }
    \cup
    { <<"TaskRequestMessage", [task_type |-> "fetch", task_data |-> [symbol |-> "AAPL"],
                               source |-> "s", timestamp |-> ts, message_type |-> mt]>> :
        mt \in DOMAIN MessageType, ts \in EnvelopeTimestamps }
    \cup
    { <<cls, [payload |-> p, source |-> "s"]>> :
        cls \in {"PriceDataMessage", "VolatilityAlertMessage", "SystemEventMessage"},
        p \in EnvelopePayloads }

NewEnvelope(cls, kwargs) ==
    /\ New(cls, kwargs, Fresh).raised = ""
    /\ envelope' = New(cls, kwargs, Fresh).value
    /\ wire' = NoWire
    /\ decoded' = NotDecoded
    /\ UNCHANGED <<engineVars, threadVars, last_stop, rendered, orphans, stop_calls,
                   production_stops, systemVars, busVars, consumerVars>>

ToDict ==
    /\ wire' = [made |-> TRUE, dict |-> to_dict(envelope)]
    /\ decoded' = NotDecoded
    /\ UNCHANGED <<engineVars, threadVars, last_stop, rendered, orphans, stop_calls,
                   production_stops, systemVars, busVars, consumerVars, envelope>>

\* type(m).from_dict(d) on the dict to_dict returned
FromDict ==
    /\ wire.made
    /\ LET r == from_dict(envelope.cls, wire.dict, Fresh)
       IN  decoded' = [done |-> TRUE, raised |-> r.raised, value |-> r.value]
    /\ UNCHANGED <<engineVars, threadVars, last_stop, rendered, orphans, stop_calls,
                   production_stops, systemVars, busVars, consumerVars, envelope, wire>>

NextEnvelope ==
    \/ \E input \in EnvelopeInputs : NewEnvelope(input[1], input[2])
    \/ ToDict
    \/ FromDict

SpecEnvelope == Init /\ [][NextEnvelope]_vars

\* the fields of BaseMessage
EnvelopeFields == {"message_id", "message_type", "timestamp", "source", "payload"}

\* C11: for an envelope m of every class and every message type,
\* from_dict(to_dict(m)) succeeds and gives an envelope equal to m in
\* message_id, message_type, timestamp, source and payload.
C11_RoundTripEqual ==
    decoded.done =>
        /\ decoded.raised = ""
        /\ \A f \in EnvelopeFields : decoded.value[f] = envelope[f]

\* the round trip of every class but TaskRequestMessage
C11_RoundTripOfOtherClasses ==
    (decoded.done /\ envelope.cls # "TaskRequestMessage") =>
        /\ decoded.raised = ""
        /\ decoded.value = envelope

----------------------------------------------------------------------------
(* The bus: subscription threads, publishers and handlers (SpecBus)        *)

\* BaseConsumer.start_consumption: one daemon thread for each message type
StartConsumption(consumer) ==
    /\ ~ consumers[consumer].is_running
    /\ consumers' = [consumers EXCEPT ![consumer].is_running = TRUE]
    /\ workers' = [w \in Threads |-> IF w.consumer = consumer THEN "started" ELSE workers[w]]
    /\ UNCHANGED <<engineVars, threadVars, last_stop, rendered, orphans, stop_calls,
                   production_stops, systemVars, envelopeVars, consumerVars, subscribed,
                   inboxes, published, subscribed_at, handled, sent>>

\* the thread runs _subscribe_channel up to the loop over pubsub.listen():
\* Redis adds the subscription, and its confirmation, the first message
\* listen() yields, is skipped by the loop body.  The threads are daemon
\* threads: they run as long as the process does.
Subscribe(w) ==
    /\ app.pc # "exited"
    /\ workers[w] = "started"
    /\ workers' = [workers EXCEPT ![w] = "listening"]
    /\ subscribed' = subscribed \cup { <<w, channel_name(w.message_type)>> }
    /\ subscribed_at' = [subscribed_at EXCEPT ![w] = Len(published)]
    /\ UNCHANGED <<engineVars, threadVars, last_stop, rendered, orphans, stop_calls,
                   production_stops, systemVars, envelopeVars, consumerVars, consumers, inboxes,
                   published, handled, sent>>

\* the thread reads the next message of its connection
Listen(w) ==
    /\ app.pc # "exited"
    /\ workers[w] = "listening"
    /\ inboxes[w] # << >>
    /\ LET head == Head(inboxes[w])
           popped == [inboxes EXCEPT ![w] = Tail(@)]
           calls == listen_round(w, head.message, <<w, head.message.channel>> \in subscribed,
                                 price_history, threshold_cache, db)
       IN  IF calls = {}
           THEN /\ inboxes' = popped
                /\ UNCHANGED <<engineVars, threadVars, last_stop, rendered, orphans, stop_calls,
                               production_stops, workers, published, handled, sent>>
           ELSE \E call \in calls :
                  LET after == IF call.effect.publishes = << >>
                               THEN [inboxes |-> popped, published |-> published]
                               ELSE publish(subscribed, popped, published,
                                            call.effect.publishes[1].channel,
                                            call.effect.publishes[1].message, TRUE)
                  IN  /\ inboxes' = after.inboxes
                      /\ published' = after.published
                      /\ handled' = [handled EXCEPT ![w] =
                                       Append(@, [seq |-> head.seq, data |-> call.data,
                                                  raised |-> call.raised,
                                                  escaped |-> call.escaped,
                                                  processed |-> call.processed])]
                      /\ workers' = [workers EXCEPT ![w] = IF call.escaped THEN "dead" ELSE @]
                      /\ db' = IF call.effect.saved = << >> THEN db
                               ELSE save_price_data(db, call.effect.saved[1])
                      /\ price_history' = call.effect.history
                      /\ threshold_cache' = call.effect.cache
                      /\ snapshot' = Aliased(snapshot, call.effect.cache)
                      /\ sent' = sent \o call.effect.sends
                      /\ UNCHANGED <<last_analysis, last_lookup, analyzed, stored, before>>
    /\ UNCHANGED <<systemVars, threadVars, last_stop, rendered, orphans, stop_calls,
                   production_stops, envelopeVars, consumerVars, consumers, subscribed,
                   subscribed_at>>

\* some thread calls mq.publish(channel, message)
Publish(channel, message, connected) ==
    /\ Len(published) < MaxPublished
    /\ LET after == publish(subscribed, inboxes, published, channel, message, connected)
       IN  /\ inboxes' = after.inboxes
           /\ published' = after.published
    /\ UNCHANGED <<engineVars, threadVars, last_stop, rendered, orphans, stop_calls,
                   production_stops, systemVars, envelopeVars, consumerVars, consumers, workers,
                   subscribed, subscribed_at, handled, sent>>

\* the envelope of a tick as a producer builds it, of a system event as the
\* application builds it, and of an alert
TickEnvelope(tick, message_type, uuid) ==
    New("PriceDataMessage",
        [payload |-> PriceData_to_dict(tick), source |-> "USStockDailyProducer",
         timestamp |-> Datetime(tick.timestamp, 0), message_type |-> message_type,
         message_id |-> uuid], Fresh).value

EventEnvelope(event_type) ==
    New("SystemEventMessage",
        [payload |-> [event_type |-> event_type,
                      event_data |-> [timestamp |-> isoformat(Fresh.now)]],
         source |-> "ProducerConsumerApp"], Fresh).value

AlertEnvelope ==
    New("VolatilityAlertMessage",
        [payload |-> alert_message_kwargs(
                        make_alert(PriceData("AAPL", "US", 22, "datetime", 103, "1d"), "daily",
                                   Rat(3, 1), Dec(30), 100)).alert_data,
         source |-> "VolatilityConsumer"], Fresh).value

\* the publish calls of the bus on its own: a tick on the channel the producers
\* use, an alert on the channel of its type and a system event on the channel
\* the application names
BusPublishes ==
    { <<channel_name("PRICE_DATA"),
        to_dict(TickEnvelope(PriceData("AAPL", "US", 22, "datetime", 103, "1d"), "PRICE_DATA", "t1"))>>,
      <<channel_name("VOLATILITY_ALERT"), to_dict(AlertEnvelope)>>,
      <<MessageType.SYSTEM_EVENT, to_dict(EventEnvelope("system_start"))>> }

NextBus ==
    \/ \E consumer \in {Consumers[i] : i \in DOMAIN Consumers} : StartConsumption(consumer)
    \/ \E w \in Threads : Subscribe(w)
    \/ \E w \in Threads : Listen(w)
    \/ \E p \in BusPublishes : Publish(p[1], p[2], TRUE)
    \/ \E p \in BusPublishes : p[1] = channel_name("PRICE_DATA") /\ Publish(p[1], p[2], FALSE)

SpecBus == Init /\ [][NextBus]_vars

----------------------------------------------------------------------------
(* Properties of the bus (SpecBus)                                         *)

\* C12: publish on a channel that has no subscriber returns without raising,
\* and a thread only ever receives messages published after it subscribed: a
\* thread that has not subscribed has no message waiting, and every message a
\* thread's handler was called with or that waits on its connection was
\* published after the thread's subscription.
C12_NoRetroactiveDelivery ==
    /\ \A i \in DOMAIN published : published[i].raised = ""
    /\ \A w \in Threads :
        /\ workers[w] \in {"unstarted", "started"} => inboxes[w] = << >>
        /\ \A k \in DOMAIN handled[w] : handled[w][k].seq > subscribed_at[w]
        /\ \A k \in DOMAIN inboxes[w] :
              inboxes[w][k].message.type = "message" => inboxes[w][k].seq > subscribed_at[w]

\* a message was published on a channel nobody was subscribed to, a thread
\* subscribed to that channel afterwards, and its handler has been called with
\* a later message only
C12_Witness ==
    \E w \in Threads : \E i \in DOMAIN published :
        /\ published[i].channel = channel_name(w.message_type)
        /\ published[i].caught = ""
        /\ published[i].receivers = {}
        /\ workers[w] = "listening"
        /\ subscribed_at[w] >= i
        /\ inboxes[w] = << >>
        /\ handled[w] # << >>
        /\ \A k \in DOMAIN handled[w] : handled[w][k].seq > i

\* the numbers of the publish calls that reached thread w, in order
DeliveredTo(w) ==
    SelectSeq([i \in 1..Len(published) |-> i], LAMBDA i : w \in published[i].receivers)

\* the numbers of the messages w's handler was called with, then of those
\* that wait on its connection
ReceivedBy(w) ==
    [k \in DOMAIN handled[w] |-> handled[w][k].seq]
    \o [k \in 1..Len(SelectSeq(inboxes[w], LAMBDA e : e.message.type = "message")) |->
          SelectSeq(inboxes[w], LAMBDA e : e.message.type = "message")[k].seq]

\* C13: when an exception arises in a consumer's handler, it does not leave
\* the handler, the thread keeps listening and stays subscribed, and every
\* thread, of the same and of the other channels, still has or gets every
\* message published to it, and none of them has stopped.
C13_HandlerFailureContained ==
    \A w \in Threads :
        (\E k \in DOMAIN handled[w] : handled[w][k].raised # "") =>
            /\ \A k \in DOMAIN handled[w] : ~ handled[w][k].escaped
            /\ workers[w] = "listening"
            /\ <<w, channel_name(w.message_type)>> \in subscribed
            /\ \A v \in Threads :
                /\ workers[v] # "dead"
                /\ ReceivedBy(v) = DeliveredTo(v)

\* an exception arose in the first call of a handler, the handler was called
\* again with the next message of the channel, and the other subscriber of the
\* channel has had both messages too
C13_Witness ==
    \E w \in Threads, v \in Threads :
        /\ v # w
        /\ v.message_type = w.message_type
        /\ Len(handled[w]) = 2
        /\ handled[w][1].raised # ""
        /\ handled[w][2].seq > handled[w][1].seq
        /\ Len(handled[v]) = 2

\* C19: every price tick published while the Data Store Sink and the
\* Volatility Engine are subscribed reaches each of them once, and the handler
\* of each is called for it with the decoded envelope, the dictionary that was
\* published, and passes it on to process_message.
C19_TickHandledOnceDecoded ==
    \A i \in DOMAIN published :
        (published[i].channel = channel_name("PRICE_DATA") /\ published[i].caught = "") =>
            \A w \in published[i].receivers :
                /\ Len(SelectSeq(ReceivedBy(w), LAMBDA seq : seq = i)) = 1
                /\ \A k \in DOMAIN handled[w] :
                      handled[w][k].seq = i =>
                          /\ handled[w][k].data = published[i].message
                          /\ handled[w][k].processed

----------------------------------------------------------------------------
(* The consumers called with decoded envelopes (SpecConsumers)             *)

\* the tick a price payload describes
TickOfPayload(payload) ==
    PriceData(payload.symbol, payload.market, fromisoformat(payload.timestamp).sec,
              "datetime", payload.close, payload.frequency)

\* ticks of one instrument with a move of 3% between them (threshold 2.0)
ConsumerTicks ==
    { PriceData("AAPL", "US", t, "datetime", c, "1m") : t \in 1..2, c \in {100, 103} }
    \cup { PriceData("AAPL", "US", 22, "datetime", 103, "1d") }

\* the envelopes as BaseMessage.from_dict builds them in the handler: ticks of
\* the latest and of the historical kind, system events, an alert
ConsumerMessages ==
    { from_dict("BaseMessage", to_dict(TickEnvelope(tick, mt, "t1")), Fresh).value :
        tick \in ConsumerTicks, mt \in {"PRICE_DATA", "HISTORICAL_PRICE_DATA"} }
    \cup
    { from_dict("BaseMessage", to_dict(EventEnvelope(e)), Fresh).value :
        e \in {"system_start", "system_shutdown"} }
    \cup
    { from_dict("BaseMessage", to_dict(AlertEnvelope), Fresh).value }

IsPriceTick(message) ==
    message.message_type \in {"PRICE_DATA", "HISTORICAL_PRICE_DATA"}

\* the tick moves by the minute threshold or more against the tick the
\* consumer was given before it for the same instrument
Breach(tick) ==
    /\ tick.frequency = "1m"
    /\ symbol_key(tick) \in DOMAIN fed
    /\ fed[symbol_key(tick)].close # 0
    /\ breaches(calculate_change_percent(tick.close, fed[symbol_key(tick)].close),
                get_threshold(threshold_cache, tick.symbol, "minute", tick.market).value)

\* consumer.process_message(message), called as the handler calls it
ProcessMessage(consumer, message) ==
    /\ \E effect \in process_message(consumer, message, price_history, threshold_cache, db) :
         LET after == IF effect.publishes = << >>
                      THEN [inboxes |-> inboxes, published |-> published]
                      ELSE publish(subscribed, inboxes, published, effect.publishes[1].channel,
                                   effect.publishes[1].message, TRUE)
         IN  /\ last_process' =
                   Process(consumer, message, effect,
                           message.message_type = "PRICE_DATA"
                           /\ Breach(TickOfPayload(message.payload)))
             /\ inboxes' = after.inboxes
             /\ published' = after.published
             /\ db' = IF effect.saved = << >> THEN db ELSE save_price_data(db, effect.saved[1])
             /\ price_history' = effect.history
             /\ threshold_cache' = effect.cache
             /\ snapshot' = Aliased(snapshot, effect.cache)
             /\ sent' = sent \o effect.sends
    /\ fed' = IF consumer = "VolatilityConsumer" /\ message.message_type = "PRICE_DATA"
              THEN DictSet(fed, symbol_key(TickOfPayload(message.payload)),
                           TickOfPayload(message.payload))
              ELSE fed
    /\ UNCHANGED <<last_analysis, last_lookup, analyzed, stored, before>>
    /\ UNCHANGED <<systemVars, threadVars, last_stop, rendered, orphans, stop_calls,
                   production_stops, envelopeVars, workers, subscribed, subscribed_at, handled,
                   consumers>>

NextConsumers ==
    \E consumer \in {Consumers[i] : i \in DOMAIN Consumers}, message \in ConsumerMessages :
        ProcessMessage(consumer, message)

SpecConsumers == Init /\ [][NextConsumers]_vars

\* C14: every breach the Volatility Engine is given leads to exactly one alert
\* envelope, published on the channel the Notification Sink subscribes to for
\* alerts.
C14_BreachPublishesOneAlertOnSinkChannel ==
    (last_process.consumer = "VolatilityConsumer" /\ last_process.breach) =>
        /\ Len(last_process.publishes) = 1
        /\ last_process.publishes[1].channel = channel_name("VOLATILITY_ALERT")

\* C20: for every well-formed price envelope, of the latest or of the
\* historical kind, the Data Store Sink saves exactly one row, whose fields are
\* those of the payload.
C20_StorageSavesTickOnce ==
    (last_process.consumer = "StorageConsumer" /\ IsPriceTick(last_process.message)) =>
        /\ last_process.raised = ""
        /\ last_process.saved = << TickOfPayload(last_process.message.payload) >>

----------------------------------------------------------------------------
(* The application: run(), the producers' tasks and the subscription       *)
(* threads (SpecSystem)                                                    *)

\* the lists setup_producers may leave in self.producers: the daily producer of
\* the line that is not commented out, or the crypto producer of the last one
ProducerLists == { <<"USStockDailyProducer">>, <<"CryptoProducer">> }

\* what the fetcher returns to a producer for its symbol: nothing, one tick,
\* or two ticks of consecutive days
FetchedHistories(producer) ==
    LET symbol == IF producer = "CryptoProducer" THEN "BTCUSDT" ELSE "AAPL"
        market == IF producer = "CryptoProducer" THEN "CRYPTO" ELSE "US"
    IN  { << >>,
          << PriceData(symbol, market, 22, "datetime", 103, "1d") >>,
          << PriceData(symbol, market, 20, "datetime", 100, "1d"),
             PriceData(symbol, market, 22, "datetime", 103, "1d") >> }

AllConsumersStarted == \A i \in DOMAIN Consumers : consumers[Consumers[i]].is_running

\* run(run_immediately, ignore_schedule) enters start_system: is_running is
\* set, the signal handlers are installed, producers and consumers are set up
Run(run_immediately, ignore_schedule, names) ==
    /\ app.pc = "init"
    /\ app' = [NewApp EXCEPT !.pc = "starting", !.is_running = TRUE,
                             !.run_immediately = run_immediately,
                             !.ignore_schedule = ignore_schedule, !.producers = names]
    /\ UNCHANGED <<engineVars, threadVars, last_stop, rendered, orphans, stop_calls,
                   production_stops, messagingVars, producers, tasks>>

\* start_system: for consumer in self.consumers: consumer.start_consumption()
StartSystemConsumer(i) ==
    /\ app.pc = "starting"
    /\ \A j \in 1..(i - 1) : consumers[Consumers[j]].is_running
    /\ StartConsumption(Consumers[i])

\* start_system: for producer in self.producers: producer.start_production()
StartSystemProducer ==
    /\ app.pc = "starting"
    /\ AllConsumersStarted
    /\ app.started < Len(app.producers)
    /\ LET name == app.producers[app.started + 1]
           start == start_production(producers[name], app.run_immediately, app.ignore_schedule)
       IN  /\ producers' = [producers EXCEPT ![name] = start.producer]
           /\ tasks' = IF start.task
                       THEN Append(tasks, Task(name, "start_production", "started", << >>))
                       ELSE tasks
    /\ app' = [app EXCEPT !.started = @ + 1]
    /\ UNCHANGED <<engineVars, threadVars, last_stop, rendered, orphans, stop_calls,
                   production_stops, messagingVars>>

\* start_system: mq.publish(MessageType.SYSTEM_EVENT.value, startup_message.to_dict()),
\* then run() waits: for 60 seconds in one-shot mode, for a signal otherwise
PublishStartup ==
    /\ app.pc = "starting"
    /\ AllConsumersStarted
    /\ app.started = Len(app.producers)
    /\ LET message == startup_message(app.producers, app.run_immediately, app.ignore_schedule)
           after == publish(subscribed, inboxes, published, MessageType.SYSTEM_EVENT,
                            to_dict(message.value), TRUE)
       IN  /\ inboxes' = after.inboxes
           /\ published' = after.published
    /\ app' = [app EXCEPT !.pc = "waiting"]
    /\ UNCHANGED <<engineVars, threadVars, last_stop, rendered, orphans, stop_calls,
                   production_stops, envelopeVars, consumerVars, producers, tasks, workers,
                   subscribed, subscribed_at, handled, sent, consumers>>

\* one-shot mode: the sleep of wait_and_stop is over and stop_system is called
WaitAndStop ==
    /\ app.pc = "waiting"
    /\ app.ignore_schedule
    /\ app.is_running
    /\ app' = [app EXCEPT !.pc = "stopping", !.is_running = FALSE]
    /\ UNCHANGED <<engineVars, threadVars, last_stop, rendered, orphans, stop_calls,
                   production_stops, messagingVars, producers, tasks>>

\* SIGINT or SIGTERM arrives while run() waits: signal_handler calls stop_system
SignalHandler ==
    /\ app.pc = "waiting"
    /\ app.is_running
    /\ app' = [app EXCEPT !.pc = "stopping", !.is_running = FALSE]
    /\ UNCHANGED <<engineVars, threadVars, last_stop, rendered, orphans, stop_calls,
                   production_stops, messagingVars, producers, tasks>>

\* stop_system: for producer in self.producers: producer.stop_production()
StopSystemProducer ==
    /\ app.pc = "stopping"
    /\ app.stopped < Len(app.producers)
    /\ producers' = [producers EXCEPT ![app.producers[app.stopped + 1]] = stop_production(@)]
    /\ app' = [app EXCEPT !.stopped = @ + 1]
    /\ UNCHANGED <<engineVars, threadVars, last_stop, rendered, orphans, stop_calls,
                   production_stops, messagingVars, tasks>>

\* stop_system from the loop over the consumers to its end.  An exception that
\* leaves it is caught in run(), whose finally clause calls stop_system again:
\* is_running being false, that call returns at once and run() returns.
\* Without exception, run() or sys.exit(0) ends the process in the same way.
StopSystemRest ==
    /\ app.pc = "stopping"
    /\ app.stopped = Len(app.producers)
    /\ LET rest == stop_system_rest(consumers)
           after == IF rest.publishes = << >>
                    THEN [inboxes |-> inboxes, published |-> published]
                    ELSE publish(subscribed, inboxes, published, rest.publishes[1].channel,
                                 rest.publishes[1].message, TRUE)
       IN  /\ consumers' = rest.consumers
           /\ inboxes' = after.inboxes
           /\ published' = after.published
    /\ app' = [app EXCEPT !.pc = "exited"]
    /\ UNCHANGED <<engineVars, threadVars, last_stop, rendered, orphans, stop_calls,
                   production_stops, envelopeVars, consumerVars, producers, tasks, workers,
                   subscribed, subscribed_at, handled, sent>>

\* the scheduler of a producer fires its job: _run_production_task
SchedulerFires(name) ==
    /\ app.pc # "exited"
    /\ producers[name].scheduler_running
    /\ producers[name].job
    /\ Len(tasks) < MaxTasks
    /\ tasks' = Append(tasks, Task(name, "job", "started", << >>))
    /\ UNCHANGED <<engineVars, threadVars, last_stop, rendered, orphans, stop_calls,
                   production_stops, messagingVars, app, producers>>

\* _production_wrapper: messages = await self.produce_data()
ProduceData(t, historical_data) ==
    /\ app.pc # "exited"
    /\ tasks[t].stage = "started"
    /\ tasks' = [tasks EXCEPT ![t].stage = "publishing",
                              ![t].messages = produce_data(tasks[t].producer, historical_data)]
    /\ UNCHANGED <<engineVars, threadVars, last_stop, rendered, orphans, stop_calls,
                   production_stops, messagingVars, app, producers>>

\* _production_wrapper: self.publish_message(message) for the next message
PublishMessage(t) ==
    /\ app.pc # "exited"
    /\ tasks[t].stage = "publishing"
    /\ tasks[t].messages # << >>
    /\ LET call == publish_message(Head(tasks[t].messages))
           after == publish(subscribed, inboxes, published, call.channel, call.message, TRUE)
       IN  /\ inboxes' = after.inboxes
           /\ published' = after.published
    /\ tasks' = [tasks EXCEPT ![t].messages = Tail(@), ![t].published = @ + 1]
    /\ UNCHANGED <<engineVars, threadVars, last_stop, rendered, orphans, stop_calls,
                   production_stops, envelopeVars, consumerVars, app, producers, workers,
                   subscribed, subscribed_at, handled, sent, consumers>>

\* _production_wrapper after the loop: a producer made with ignore_schedule
\* and without run_immediately stops itself; the thread ends
FinishTask(t) ==
    /\ app.pc # "exited"
    /\ tasks[t].stage = "publishing"
    /\ tasks[t].messages = << >>
    /\ tasks' = [tasks EXCEPT ![t].stage = "done"]
    /\ producers' = IF app.ignore_schedule /\ ~ app.run_immediately
                    THEN [producers EXCEPT ![tasks[t].producer] = stop_production(@)]
                    ELSE producers
    /\ UNCHANGED <<engineVars, threadVars, last_stop, rendered, orphans, stop_calls,
                   production_stops, messagingVars, app>>

NextSystem ==
    \/ \E run_immediately \in BOOLEAN, ignore_schedule \in BOOLEAN, names \in ProducerLists :
          Run(run_immediately, ignore_schedule, names)
    \/ \E i \in DOMAIN Consumers : StartSystemConsumer(i)
    \/ StartSystemProducer
    \/ PublishStartup
    \/ WaitAndStop
    \/ SignalHandler
    \/ StopSystemProducer
    \/ StopSystemRest
    \/ \E name \in ProducerNames : SchedulerFires(name)
    \/ \E t \in DOMAIN tasks : \E historical_data \in FetchedHistories(tasks[t].producer) :
          ProduceData(t, historical_data)
    \/ \E t \in DOMAIN tasks : PublishMessage(t)
    \/ \E t \in DOMAIN tasks : FinishTask(t)
    \/ \E w \in Threads : Subscribe(w)
    \/ \E w \in Threads : Listen(w)

SpecSystem == Init /\ [][NextSystem]_vars

----------------------------------------------------------------------------
(* Properties of the application (SpecSystem)                              *)

\* the publish calls whose dictionary is a system event of the given type
EventsPublished(event_type) ==
    { i \in DOMAIN published :
        /\ "event_type" \in DOMAIN published[i].message.payload
        /\ published[i].message.payload.event_type = event_type }

C16_StopSystemStopsAllAndPublishesShutdown ==
    app.pc = "exited" =>
        /\ \A i \in DOMAIN app.producers : ~ producers[app.producers[i]].is_running
        /\ \A i \in DOMAIN Consumers : ~ consumers[Consumers[i]].is_running
        /\ Cardinality(EventsPublished("system_shutdown")) = 1

\* the thread of the Notification Sink for system events
SystemEventThread == [consumer |-> "NotificationConsumer", message_type |-> "SYSTEM_EVENT"]

\* C17: the system_start event start_system publishes reaches the Notification
\* Sink when its thread had subscribed before, and once the thread has read
\* all it received, exactly one startup test message has been sent.
C17_StartupEventReachesNotificationSink ==
    \A i \in EventsPublished("system_start") :
        (workers[SystemEventThread] = "listening" /\ subscribed_at[SystemEventThread] < i) =>
            /\ SystemEventThread \in published[i].receivers
            /\ inboxes[SystemEventThread] = << >> =>
                  Cardinality({ k \in DOMAIN sent : sent[k].sent = "test_message" }) = 1

\* C18: when run() has ended in one-shot mode, the system is stopped, every
\* configured producer has run its production task exactly once and has no
\* recurring job.
C18_OneShotRunsEachProducerOnce ==
    (app.pc = "exited" /\ app.ignore_schedule) =>
        /\ ~ app.is_running
        /\ \A i \in DOMAIN app.producers :
              /\ Cardinality({ t \in DOMAIN tasks : tasks[t].producer = app.producers[i] }) = 1
              /\ ~ producers[app.producers[i]].job
              /\ ~ producers[app.producers[i]].scheduler_running

----------------------------------------------------------------------------
(* Properties of the daily and the weekly analysis (Spec)                  *)

\* the number of rows the store holds for the tick's instrument at the
\* frequency of the analysis op, in the window the analysis queries
WindowRecords(tick, op) ==
    LET frequency == IF op = "daily" THEN "1d" ELSE "1w"
        days == IF op = "daily" THEN DailyWindowDays ELSE WeeklyWindowWeeks * 7
        rows == { r \in BagToSet(db) :
                    /\ r.symbol = tick.symbol
                    /\ r.market = tick.market
                    /\ r.frequency = frequency
                    /\ tick.timestamp - days <= r.timestamp
                    /\ r.timestamp <= tick.timestamp }
    IN  BagCardinality([r \in rows |-> db[r]])

\* C21: a daily or weekly analysis of a tick for which the store holds fewer
\* than two records in the queried window returns no alert and raises nothing.
\* (Rows are never deleted: fewer than two now is fewer than two at the call.)
C21_InsufficientHistoryNoAlert ==
    (last_analysis.op \in {"daily", "weekly"}
       /\ WindowRecords(last_analysis.tick, last_analysis.op) < 2) =>
        last_analysis.returned = "None"

\* C22: no analysis of a tick, minute, daily or weekly, lets an exception
\* leave the method: for a tick it cannot handle or a failing store it
\* returns no alert.
C22_AnalysisNeverRaises ==
    last_analysis.returned # "raise"

\* C23: when the store returned at least two records to a daily or weekly
\* analysis, the change compared to the threshold is the change between the
\* latest and the second-latest of these persisted closes, whether or not the
\* tick under analysis has itself been persisted yet.
C23_ChangeBetweenLatestTwoPersisted ==
    (last_analysis.op \in {"daily", "weekly"} /\ Len(before.historical_data) >= 2) =>
        LET n == Len(before.historical_data)
        IN  /\ last_analysis.compared
            /\ last_analysis.change_percent =
                   calculate_change_percent(before.historical_data[n].close,
                                            before.historical_data[n - 1].close)

\* C30: a daily or weekly analysis leaves price_history as it was and, when it
\* compares, takes the previous close from the list the store returned; a
\* minute analysis queries no store and, when it compares, takes the previous
\* close from price_history.
C30_HistoryAndCacheKeptApart ==
    /\ last_analysis.op \in {"daily", "weekly"} =>
          /\ price_history = before.price_history
          /\ last_analysis.compared =>
                /\ Len(before.historical_data) >= 2
                /\ last_analysis.previous_close =
                       before.historical_data[Len(before.historical_data) - 1].close
    /\ last_analysis.op = "minute" =>
          /\ before.historical_data = << >>
          /\ last_analysis.compared = before.cached
          /\ last_analysis.compared => last_analysis.previous_close = before.cached_close

\* a daily analysis has compared a tick with a close of the stored history
\* that differs from the close price_history holds for the tick's key, and the
\* entry of price_history is the one the call found
C30_Witness ==
    /\ last_analysis.op = "daily"
    /\ last_analysis.compared
    /\ symbol_key(last_analysis.tick) \in DOMAIN before.price_history
    /\ before.price_history[symbol_key(last_analysis.tick)].close # last_analysis.previous_close
    /\ price_history[symbol_key(last_analysis.tick)] =
           before.price_history[symbol_key(last_analysis.tick)]

----------------------------------------------------------------------------
(* Further properties of the consumers (SpecConsumers)                     *)

\* the keys of an alert payload
AlertPayloadKeys ==
    {"symbol", "name", "frequency", "current_change", "threshold", "current_price",
     "previous_price", "timestamp"}

\* C24: the Volatility Engine consumer, given a price envelope whose tick has
\* frequency 1m, 1d or 1w, runs the analysis of that frequency: the call ends
\* without exception, and a breach on the tick gives one published alert
\* envelope whose payload has the eight alert keys.
C24_AnalysisSelectedByFrequency ==
    (/\ last_process.consumer = "VolatilityConsumer"
     /\ last_process.message.message_type = "PRICE_DATA"
     /\ last_process.message.payload.frequency \in {"1m", "1d", "1w"}) =>
        /\ last_process.raised = ""
        /\ last_process.breach =>
              /\ Len(last_process.publishes) = 1
              /\ DOMAIN last_process.publishes[1].message.payload = AlertPayloadKeys

\* C28: for every alert envelope the Notification Sink is given it makes
\* exactly one send attempt through the webhook, and no exception leaves
\* process_message.
C28_OneSendAttemptPerAlert ==
    (/\ last_process.consumer = "NotificationConsumer"
     /\ last_process.message.message_type = "VOLATILITY_ALERT") =>
        /\ last_process.raised = ""
        /\ Len(last_process.sends) = 1

----------------------------------------------------------------------------
(* Concurrent minute analyses (SpecConcurrent)                             *)
(*                                                                         *)
(* analyze_minute_volatility takes no lock, and the websocket callback     *)
(* runs on a thread of its own (crypto_fetcher.py, threading.Thread), so   *)
(* the interpreter may switch contexts between any two of its statements.  *)
(* One action is one statement of the method.                              *)

InFlight == Cardinality({ c \in Contexts : threads[c].pc # "idle" })

\* a context enters analyze_minute_volatility(current_data)
MinuteEnter(c, current_data) ==
    /\ threads[c].pc = "idle"
    /\ Len(returns) + InFlight < MaxCalls
    /\ threads' = [threads EXCEPT ![c] = [NewCall EXCEPT !.pc = "test", !.current_data = current_data]]
    /\ UNCHANGED <<engineVars, messagingVars, systemVars, returns, last_stop, rendered, orphans,
                   stop_calls, production_stops>>

\* if symbol_key in self.price_history:
MinuteTest(c) ==
    /\ threads[c].pc = "test"
    /\ threads' = [threads EXCEPT ![c].pc =
                      IF symbol_key(threads[c].current_data) \in DOMAIN price_history
                      THEN "read" ELSE "store"]
    /\ UNCHANGED <<engineVars, messagingVars, systemVars, returns, last_stop, rendered, orphans,
                   stop_calls, production_stops>>

\* previous_data = self.price_history[symbol_key]
MinuteRead(c) ==
    /\ threads[c].pc = "read"
    /\ threads' = [threads EXCEPT ![c].pc = "compare",
                                  ![c].previous_data = price_history[symbol_key(threads[c].current_data)]]
    /\ UNCHANGED <<engineVars, messagingVars, systemVars, returns, last_stop, rendered, orphans,
                   stop_calls, production_stops>>

\* change_percent, threshold, and the comparison: return the alert, or go on
\* to the overwrite
MinuteCompare(c) ==
    LET current_data == threads[c].current_data
        previous_data == threads[c].previous_data
        change_percent == calculate_change_percent(current_data.close, previous_data.close)
        got == get_threshold(threshold_cache, current_data.symbol, "minute", current_data.market)
        threshold == got.value
    IN  /\ threads[c].pc = "compare"
        /\ threshold_cache' = got.dict
        /\ snapshot' = Aliased(snapshot, got.dict)
        /\ IF breaches(change_percent, threshold)
           THEN /\ threads' = [threads EXCEPT ![c] = NewCall]
                /\ returns' = Append(returns,
                       [context |-> c,
                        call |-> Analysis("minute", current_data, "alert",
                                     make_alert(current_data, "minute", change_percent,
                                                threshold, previous_data.close),
                                     TRUE, previous_data.close, change_percent, threshold)])
           ELSE /\ threads' = [threads EXCEPT ![c].pc = "store"]
                /\ UNCHANGED returns
        /\ UNCHANGED <<price_history, db, last_analysis, last_lookup, analyzed, stored, before>>
        /\ UNCHANGED <<messagingVars, systemVars, last_stop, rendered, orphans, stop_calls,
                       production_stops>>

\* self.price_history[symbol_key] = current_data; return None
MinuteStore(c) ==
    LET current_data == threads[c].current_data
        previous_data == threads[c].previous_data
        compared == previous_data # NoTick
        got == get_threshold(threshold_cache, current_data.symbol, "minute", current_data.market)
    IN  /\ threads[c].pc = "store"
        /\ price_history' = DictSet(price_history, symbol_key(current_data), current_data)
        /\ threads' = [threads EXCEPT ![c] = NewCall]
        /\ returns' = Append(returns,
               [context |-> c,
                call |-> IF compared
                         THEN Analysis("minute", current_data, "None", NoAlert, TRUE,
                                  previous_data.close,
                                  calculate_change_percent(current_data.close, previous_data.close),
                                  got.value)
                         ELSE Analysis("minute", current_data, "None", NoAlert, FALSE, 0, Zero, Zero)])
        /\ UNCHANGED <<db, threshold_cache, snapshot, last_analysis, last_lookup, analyzed,
                       stored, before>>
        /\ UNCHANGED <<messagingVars, systemVars, last_stop, rendered, orphans, stop_calls,
                       production_stops>>

NextConcurrent ==
    \/ \E c \in Contexts, current_data \in ConcurrentTicks : MinuteEnter(c, current_data)
    \/ \E c \in Contexts : MinuteTest(c)
    \/ \E c \in Contexts : MinuteRead(c)
    \/ \E c \in Contexts : MinuteCompare(c)
    \/ \E c \in Contexts : MinuteStore(c)

SpecConcurrent == Init /\ [][NextConcurrent]_vars

\* the calls of a list of ticks made one after the other, from the price_history
\* and the registry of a new analyzer: the records of the calls and the
\* price_history they leave
RECURSIVE sequential_calls(_, _)
sequential_calls(ticks, n) ==
    IF n = 0
    THEN [calls |-> << >>, history |-> EmptyDict, cache |-> _build_threshold_cache]
    ELSE LET head == sequential_calls(ticks, n - 1)
             r == analyze_minute_volatility(head.history, head.cache, ticks[n])
         IN  [calls |-> Append(head.calls, r.call), history |-> r.history, cache |-> r.cache]

\* the orders of n calls
Orders(n) == { p \in [1..n -> 1..n] : \A i, j \in 1..n : i # j => p[i] # p[j] }

\* the calls made so far have the outcome of the order p: every call returned
\* what it returns in that order, and price_history is what that order leaves
OutcomeOf(p) ==
    LET n == Len(returns)
        out == sequential_calls([i \in 1..n |-> returns[p[i]].call.tick], n)
    IN  /\ out.history = price_history
        /\ \A i \in 1..n :
              /\ out.calls[i].returned = returns[p[i]].call.returned
              /\ out.calls[i].alert = returns[p[i]].call.alert

\* C25: when the contexts have analyzed minute ticks of one key concurrently
\* and all have returned, what the calls returned and what price_history holds
\* is the outcome of the calls in some sequential order.
C25_ConcurrentMinuteSerialized ==
    (InFlight = 0) => \E p \in Orders(Len(returns)) : OutcomeOf(p)

----------------------------------------------------------------------------
(* Stopping a consumer (SpecStop)                                          *)

\* BaseConsumer.stop_consumption, called by the thread that owns the
\* consumer.  The subscription threads are not told: they poll nothing, and
\* their Redis subscriptions stay.
StopConsumption(consumer) ==
    LET stop == stop_consumption(consumer, consumers[consumer])
    IN  /\ consumers' = [consumers EXCEPT ![consumer] = stop.consumer]
        /\ last_stop' = [consumer |-> consumer, raised |-> stop.raised,
                         published |-> Len(published)]
        /\ UNCHANGED <<engineVars, threadVars, rendered, orphans, stop_calls, production_stops,
                       systemVars, envelopeVars, consumerVars, workers, subscribed, inboxes,
                       published, subscribed_at, handled, sent>>

\* the bus with consumers that are started once and stopped
NextStop ==
    \/ \E consumer \in {Consumers[i] : i \in DOMAIN Consumers} :
          last_stop.consumer = "" /\ StartConsumption(consumer)
    \/ \E w \in Threads : Subscribe(w)
    \/ \E w \in Threads : Listen(w)
    \/ \E p \in BusPublishes : Publish(p[1], p[2], TRUE)
    \/ \E consumer \in {Consumers[i] : i \in DOMAIN Consumers} :
          consumers[consumer].is_running /\ StopConsumption(consumer)

SpecStop == Init /\ [][NextStop]_vars

\* C26: stop_consumption on a running consumer returns without raising, and
\* its subscription threads process no envelope published after the call.
C26_StopConsumptionStopsWorkers ==
    last_stop.consumer # "" =>
        /\ last_stop.raised = ""
        /\ \A w \in Threads :
              w.consumer = last_stop.consumer =>
                  \A i \in DOMAIN handled[w] :
                      handled[w][i].seq > last_stop.published => ~ handled[w][i].processed

----------------------------------------------------------------------------
(* Envelopes that cannot be decoded (SpecUndecodable)                      *)

\* a price envelope as a producer publishes it
GoodEnvelope ==
    to_dict(TickEnvelope(PriceData("AAPL", "US", 22, "datetime", 103, "1d"), "PRICE_DATA", "t1"))

\* d without the key k
DictWithout(d, k) == [x \in (DOMAIN d) \ {k} |-> d[x]]

\* dictionaries that are no envelope: a field is missing, the message_type is
\* no value of MessageType, the payload lacks the close
UndecodableDicts ==
    { DictWithout(GoodEnvelope, "timestamp"),
      [GoodEnvelope EXCEPT !.message_type = "no_such_type"],
      [GoodEnvelope EXCEPT !.payload = DictWithout(GoodEnvelope.payload, "close")] }

\* the text a Redis client publishes: one that is not JSON
UndecodableTexts == { [text |-> "{"] }

\* the calls of handlers made with a dictionary directly
DirectCalls ==
    { <<w, k>> \in Threads \X (1..MaxPublished) : k \in DOMAIN handled[w] /\ handled[w][k].seq = 0 }

\* a Redis client outside the application publishes a text on a channel
RawPublish(channel, text) ==
    /\ Len(published) + Cardinality(DirectCalls) < MaxPublished
    /\ LET entry == [seq |-> Len(published) + 1,
                     message |-> PubSubMessage("message", channel, text)]
       IN  /\ inboxes' = redis_publish(subscribed, inboxes, channel, entry)
           /\ published' = Append(published,
                               [channel |-> channel, message |-> text,
                                receivers |-> { w \in Threads : <<w, channel>> \in subscribed },
                                caught |-> "", raised |-> ""])
    /\ UNCHANGED <<engineVars, threadVars, last_stop, rendered, orphans, stop_calls,
                   production_stops, systemVars, envelopeVars, consumerVars, consumers, workers,
                   subscribed, subscribed_at, handled, sent>>

\* the handler of a thread is called with a dictionary, as the loop body of
\* MessageQueue.subscribe calls it (callback(data))
Handle(w, data) ==
    /\ workers[w] = "listening"
    /\ Len(published) + Cardinality(DirectCalls) < MaxPublished
    /\ \E call \in handler(w.consumer, data, price_history, threshold_cache, db) :
         LET after == IF call.effect.publishes = << >>
                      THEN [inboxes |-> inboxes, published |-> published]
                      ELSE publish(subscribed, inboxes, published,
                                   call.effect.publishes[1].channel,
                                   call.effect.publishes[1].message, TRUE)
         IN  /\ inboxes' = after.inboxes
             /\ published' = after.published
             /\ handled' = [handled EXCEPT ![w] =
                              Append(@, [seq |-> 0, data |-> call.data, raised |-> call.raised,
                                         escaped |-> call.escaped,
                                         processed |-> call.processed])]
             /\ workers' = [workers EXCEPT ![w] = IF call.escaped THEN "dead" ELSE @]
             /\ db' = IF call.effect.saved = << >> THEN db
                      ELSE save_price_data(db, call.effect.saved[1])
             /\ price_history' = call.effect.history
             /\ threshold_cache' = call.effect.cache
             /\ snapshot' = Aliased(snapshot, call.effect.cache)
             /\ sent' = sent \o call.effect.sends
    /\ UNCHANGED <<last_analysis, last_lookup, analyzed, stored, before>>
    /\ UNCHANGED <<systemVars, threadVars, last_stop, rendered, orphans, stop_calls,
                   production_stops, envelopeVars, consumerVars, consumers, subscribed,
                   subscribed_at>>

NextUndecodable ==
    \/ \E consumer \in {Consumers[i] : i \in DOMAIN Consumers} : StartConsumption(consumer)
    \/ \E w \in Threads : Subscribe(w)
    \/ \E w \in Threads : Listen(w)
    \/ \E w \in Threads, text \in UndecodableTexts : RawPublish(channel_name(w.message_type), text)
    \/ \E w \in Threads, data \in UndecodableDicts : Handle(w, data)

SpecUndecodable == Init /\ [][NextUndecodable]_vars

\* C27: a consumer that is given envelopes that cannot be decoded drops each
\* of them (the handler ends with the exception caught), persists nothing,
\* publishes no alert, sends nothing through the webhook, leaves price_history
\* as it was, and its subscription thread goes on listening.
C27_UndecodableDropped ==
    /\ db = EmptyBag
    /\ sent = << >>
    /\ price_history = EmptyDict
    /\ \A i \in DOMAIN published : published[i].message \in UndecodableTexts
    /\ \A w \in Threads :
          /\ workers[w] # "dead"
          /\ \A k \in DOMAIN handled[w] :
                /\ handled[w][k].raised # ""
                /\ ~ handled[w][k].escaped

\* a thread has been handed a published text that cannot be decoded and a
\* dictionary whose payload lacks the close, and is listening
C27_Witness ==
    \E w \in Threads :
        /\ workers[w] = "listening"
        /\ Len(handled[w]) = 2
        /\ handled[w][1].seq > 0
        /\ handled[w][2].seq = 0
        /\ handled[w][2].processed

----------------------------------------------------------------------------
(* A producer on its own: start_production, the scheduler's job and        *)
(* production runs that fail (SpecProducer)                                *)

\* producer.start_production() with the flags the producer was made with
StartProduction(name) ==
    LET start == start_production(producers[name], app.run_immediately, app.ignore_schedule)
    IN  /\ ~ producers[name].is_running
        /\ producers' = [producers EXCEPT ![name] = start.producer]
        /\ tasks' = IF start.task
                    THEN Append(tasks, Task(name, "start_production", "started", << >>))
                    ELSE tasks
        /\ UNCHANGED <<engineVars, threadVars, last_stop, rendered, orphans, stop_calls,
                       production_stops, messagingVars, app>>

\* the producer's BackgroundScheduler runs the job: _run_production_task starts
\* a thread and returns
JobFires(name) ==
    /\ producers[name].scheduler_running
    /\ producers[name].job
    /\ Len(tasks) < MaxRuns
    /\ tasks' = Append(tasks, Task(name, "job", "started", << >>))
    /\ UNCHANGED <<engineVars, threadVars, last_stop, rendered, orphans, stop_calls,
                   production_stops, messagingVars, app, producers>>

\* _production_wrapper: await self.produce_data() raises (the fetch failed)
ProduceDataFails(t) ==
    /\ tasks[t].stage = "started"
    /\ produce_data_raises(tasks[t].producer)
    /\ tasks' = [tasks EXCEPT ![t] = production_failed(@)]
    /\ UNCHANGED <<engineVars, threadVars, last_stop, rendered, orphans, stop_calls,
                   production_stops, messagingVars, app, producers>>

NextProducer ==
    \/ \E name \in ProducerNames : StartProduction(name)
    \/ \E name \in ProducerNames : JobFires(name)
    \/ \E t \in DOMAIN tasks :
          \E historical_data \in FetchedHistories(tasks[t].producer) : ProduceData(t, historical_data)
    \/ \E t \in DOMAIN tasks : ProduceDataFails(t)
    \/ \E t \in DOMAIN tasks : PublishMessage(t)
    \/ \E t \in DOMAIN tasks : FinishTask(t)

SpecProducer == Init /\ [][NextProducer]_vars

\* the number of messages the first n production runs have published
RECURSIVE PublishedBy(_)
PublishedBy(n) == IF n = 0 THEN 0 ELSE PublishedBy(n - 1) + tasks[n].published

\* C29: a production run whose produce_data fails has ended without having
\* published anything and without anything left to publish, every publish call
\* is that of a run for a message it produced, and the producer's scheduler is
\* running with its job as before.
C29_ProductionFailureSwallowed ==
    /\ Len(published) = PublishedBy(Len(tasks))
    /\ \A t \in DOMAIN tasks :
          tasks[t].caught # "" =>
              /\ tasks[t].stage = "done"
              /\ tasks[t].messages = << >>
              /\ tasks[t].published = 0
              /\ producers[tasks[t].producer].is_running
              /\ producers[tasks[t].producer].scheduler_running
              /\ producers[tasks[t].producer].job

\* a run of a producer failed, and a run of the same producer that the
\* scheduler started after it has published a message
C29_Witness ==
    \E t, u \in DOMAIN tasks :
        /\ t < u
        /\ tasks[t].producer = tasks[u].producer
        /\ tasks[t].caught # ""
        /\ tasks[u].by = "job"
        /\ tasks[u].published > 0

----------------------------------------------------------------------------
(* Keys of instruments whose names contain the underscore (SpecKeys)       *)

\* (symbol, market) pairs.  Both fields are plain strings (PriceData declares
\* str and nothing validates them); the second pair is another instrument
\* whose symbol_key is the same string as that of the first
KeyPairs == { <<"AAPL", "US_STOCK">>, <<"STOCK_AAPL", "US">>, <<"MSFT", "US_STOCK">> }

KeyTicks ==
    { PriceData(p[1], p[2], 1, "datetime", c, "1m") : p \in KeyPairs, c \in {100, 103} }

\* (symbol, market, frequency) triples, two of them with one cache key
KeyTriples ==
    { <<"AAPL", "US_STOCK", "minute">>, <<"AAPL_US", "STOCK", "minute">>,
      <<"MSFT", "US_STOCK", "minute">> }

NextKeys ==
    \/ \E tick \in KeyTicks : AnalyzeMinute(tick)
    \/ \E u \in KeyTriples : UpdateThreshold(u[1], u[2], u[3], Dec(10))
    \/ \E u \in KeyTriples : GetThreshold(u[1], u[3], u[2])

SpecKeys == Init /\ [][NextKeys]_vars

\* the instrument of a tick
Instrument(tick) == <<tick.symbol, tick.market>>

\* C31: a minute analysis compares its tick with a cached tick of the same
\* instrument only and leaves the cached tick of every other instrument as it
\* was, and the registry entry a lookup or an update uses is that of one
\* (symbol, market, frequency) triple only.
C31_DistinctInstrumentsShareNoState ==
    /\ last_analysis.op = "minute" =>
          /\ before.cached =>
                Instrument(before.price_history[symbol_key(last_analysis.tick)]) =
                    Instrument(last_analysis.tick)
          /\ \A k \in DOMAIN before.price_history :
                Instrument(before.price_history[k]) # Instrument(last_analysis.tick) =>
                    price_history[k] = before.price_history[k]
    /\ last_lookup.op \in {"get_threshold", "update_threshold"} =>
          Cardinality({ u \in KeyTriples :
                          _get_cache_key(u[1], u[2], u[3]) = last_lookup.key }) <= 1

----------------------------------------------------------------------------
(* core/notifiers/wechat_notifier.py: the rendered alert (SpecNotifier)    *)

\* the characters of the message, by code point
ChartIncreasing == "U+1F4C8"

ChartDecreasing == "U+1F4C9"

MinuteText == "U+5206 U+949F U+7EA7"

DailyText == "U+65E5 U+7EA7"

WeeklyText == "U+5468 U+7EA7"

OtherText == "U+6CE2 U+52A8"

RatGt(a, b) == a.num * b.den > b.num * a.den

\* f"{x:+.2f}": the sign and the hundredths, rounded to the nearest
format_plus_2f(x) ==
    [sign |-> IF x.num < 0 THEN "-" ELSE "+",
     hundredths |-> (2 * Abs(x.num) * 100 + x.den) \div (2 * x.den)]

\* WeChatNotifier._format_alert_message: the parts of the text, in order
_format_alert_message_geq(alert) ==
    [trend_icon |-> IF RatGeq(alert.current_change, Zero) THEN ChartIncreasing
                    ELSE ChartDecreasing,
     frequency_text |-> CASE alert.frequency = "minute" -> MinuteText
                          [] alert.frequency = "daily"  -> DailyText
                          [] alert.frequency = "weekly" -> WeeklyText
                          [] OTHER                      -> OtherText,
     name |-> alert.name, symbol |-> alert.symbol,
     current_change |-> format_plus_2f(alert.current_change),
     threshold |-> alert.threshold,
     current_price |-> alert.current_price, previous_price |-> alert.previous_price]

_format_alert_message(alert) ==
    [trend_icon |-> IF RatGt(alert.current_change, Zero) THEN ChartIncreasing
                    ELSE ChartDecreasing,
     frequency_text |-> CASE alert.frequency = "minute" -> MinuteText
                          [] alert.frequency = "daily"  -> DailyText
                          [] alert.frequency = "weekly" -> WeeklyText
                          [] OTHER                      -> OtherText,
     name |-> alert.name, symbol |-> alert.symbol,
     current_change |-> format_plus_2f(alert.current_change),
     threshold |-> alert.threshold,
     current_price |-> alert.current_price, previous_price |-> alert.previous_price]

\* the alerts given to the notifier: of every frequency label the analyzer
\* writes and one it does not, with changes below, at and above zero
NotifierAlerts ==
    { VolatilityAlert("AAPL", "AAPL", f, c, Dec(20), p, 100) :
        f \in {"minute", "daily", "weekly", "hourly"},
        c \in {Rat(-3, 1), Rat(-1, 100), Zero, Rat(1, 100), Rat(3, 1)},
        p \in {97, 100, 103} }

\* what the POST of _send_wecom_message may end with
PostOutcomes == {"200", "500", "exception"}

\* WeChatNotifier.send_alert(alert) on a notifier of its own: the message is
\* rendered and posted once; the call returns whether the status was 200
SendAlert(alert, outcome) ==
    /\ rendered' = [done |-> TRUE, alert |-> alert, message |-> _format_alert_message(alert),
                    returned |-> outcome = "200"]
    /\ UNCHANGED <<engineVars, threadVars, last_stop, orphans, stop_calls, production_stops,
                   systemVars, messagingVars>>

NextNotifier ==
    \E alert \in NotifierAlerts, outcome \in PostOutcomes : SendAlert(alert, outcome)

SpecNotifier == Init /\ [][NextNotifier]_vars

\* C32: the rendered message has the marker of a rising chart exactly when the
\* alert's current_change is above zero and that of a falling chart otherwise,
\* and the frequency text of the alert's frequency.
C32_TrendMarkerAndFrequencyLabel ==
    rendered.done =>
        /\ rendered.message.trend_icon =
              IF RatGt(rendered.alert.current_change, Zero) THEN ChartIncreasing
              ELSE ChartDecreasing
        /\ rendered.alert.frequency = "minute" => rendered.message.frequency_text = MinuteText
        /\ rendered.alert.frequency = "daily" => rendered.message.frequency_text = DailyText
        /\ rendered.alert.frequency = "weekly" => rendered.message.frequency_text = WeeklyText

\* an alert whose change is zero has been rendered, orphans, stop_calls, production_stops, with the falling marker
C32_Witness ==
    /\ rendered.done
    /\ rendered.alert.current_change = Zero
    /\ rendered.alert.frequency = "weekly"
    /\ rendered.message.trend_icon = ChartDecreasing

----------------------------------------------------------------------------
(* Starting and stopping a consumer repeatedly (SpecRestart)               *)

\* the thread of the current start_consumption call runs
Running(w) == workers[w] \in {"started", "listening"}

\* consumer.start_consumption(), whatever the consumer's state.  On a running
\* consumer it returns at once.  Otherwise self.threads is replaced by a list
\* of new threads; the threads of the call before are daemon threads in the
\* loop over pubsub.listen() that nothing has ended, and they run on.
StartConsumptionCall(consumer) ==
    IF consumers[consumer].is_running
    THEN UNCHANGED vars
    ELSE /\ \A w \in Threads : orphans[w] < MaxOrphans
         /\ consumers' = [consumers EXCEPT ![consumer].is_running = TRUE]
         /\ orphans' = [w \in Threads |->
                          IF w.consumer = consumer /\ Running(w)
                          THEN orphans[w] + 1 ELSE orphans[w]]
         /\ workers' = [w \in Threads |-> IF w.consumer = consumer THEN "started" ELSE workers[w]]
         /\ UNCHANGED <<engineVars, threadVars, last_stop, rendered, stop_calls,
                        production_stops, systemVars, envelopeVars, consumerVars, subscribed,
                        inboxes, published, subscribed_at, handled, sent>>

NextRestart ==
    \/ \E consumer \in {Consumers[i] : i \in DOMAIN Consumers} : StartConsumptionCall(consumer)
    \/ \E consumer \in {Consumers[i] : i \in DOMAIN Consumers} : StopConsumption(consumer)
    \/ \E w \in Threads : Subscribe(w)

SpecRestart == Init /\ [][NextRestart]_vars

\* the threads that run for a thread name
LiveWorkers(w) == orphans[w] + (IF Running(w) THEN 1 ELSE 0)

\* C33: whatever start_consumption and stop_consumption calls were made on a
\* consumer, at most one thread runs for each of its message types.
C33_OneWorkerPerMessageType ==
    \A w \in Threads : LiveWorkers(w) <= 1

----------------------------------------------------------------------------
(* Production runs of one producer that overlap (SpecProducer)             *)

\* the runs of a producer whose thread has not ended: _run_production_task
\* started the thread and returned, _production_wrapper is before or in its
\* loop over the messages
RunsInFlight(name) ==
    { t \in DOMAIN tasks : tasks[t].producer = name /\ tasks[t].stage \in {"started", "publishing"} }

\* C34: at most one production run of a producer is in flight at any time.
C34_OneRunInFlight ==
    \A name \in ProducerNames : Cardinality(RunsInFlight(name)) <= 1

----------------------------------------------------------------------------
(* app_producer_consumer.py: the calls of stop_system (SpecShutdown)       *)

\* a call of stop_system: the caller, the statement it is at, the producers
\* its loop has passed, and its number among the calls
StopCall(caller, number) == [caller |-> caller, at |-> "test", i |-> 0, number |-> number]

\* what a call did: the test of is_running and what it found, the assignment
\* to is_running, a stop_production or stop_consumption call, the publish
Did(call, target, number) == [call |-> call, target |-> target, number |-> number]

\* the call the main thread is executing
Top == stop_calls.stack[Len(stop_calls.stack)]

\* stop_system: if not self.is_running: return
stop_system_returns_never(a) == FALSE

stop_system_returns(a) == ~ a.is_running

\* the main thread once the call it executes has ended.  The handler of a
\* signal ends with an exception, the one that left stop_system or the
\* SystemExit of sys.exit(0), which also ends the calls it interrupted; the
\* call of wait_and_stop returns into run() or is left by an exception.  In
\* each case run() goes to its finally clause, which calls stop_system, unless
\* the clause had been entered, and then run() is left.
EndCall(calls) ==
    IF calls.finally
    THEN [calls EXCEPT !.stack = << >>]
    ELSE [calls EXCEPT !.stack = << StopCall("finally", calls.begun + 1) >>,
                       !.begun = @ + 1, !.finally = TRUE]

\* the consumers whose stop_consumption the loop of stop_system calls, from
\* the i-th: the loop ends with the first exception
RECURSIVE consumers_stopped(_)
consumers_stopped(i) ==
    IF i > Len(Consumers)
    THEN << >>
    ELSE IF stop_consumption(Consumers[i], consumers[Consumers[i]]).raised # ""
    THEN << Consumers[i] >>
    ELSE << Consumers[i] >> \o consumers_stopped(i + 1)

\* SIGINT or SIGTERM arrives once start_system has installed signal_handler:
\* the handler runs in the main thread, on top of what the thread was doing,
\* and calls stop_system
SignalArrives ==
    /\ app.pc \in {"starting", "waiting", "stopping"}
    /\ stop_calls.signals < MaxSignals
    /\ stop_calls' = [stop_calls EXCEPT
                         !.stack = Append(@, StopCall("signal_handler", stop_calls.begun + 1)),
                         !.begun = @ + 1, !.signals = @ + 1]
    /\ app' = [app EXCEPT !.pc = "stopping"]
    /\ UNCHANGED <<engineVars, threadVars, last_stop, rendered, orphans, production_stops,
                   messagingVars, producers, tasks>>

\* one-shot mode: the sleep of wait_and_stop is over and it calls stop_system
WaitAndStopCall ==
    /\ app.pc = "waiting"
    /\ app.ignore_schedule
    /\ stop_calls' = [stop_calls EXCEPT
                         !.stack = Append(@, StopCall("wait_and_stop", stop_calls.begun + 1)),
                         !.begun = @ + 1]
    /\ app' = [app EXCEPT !.pc = "stopping"]
    /\ UNCHANGED <<engineVars, threadVars, last_stop, rendered, orphans, production_stops,
                   messagingVars, producers, tasks>>

\* start_system is left by an exception (start_production raises what the
\* scheduler raised, mq.publish what the connection raised): run() logs it and
\* goes to its finally clause
StartSystemRaises ==
    /\ app.pc = "starting"
    /\ stop_calls' = EndCall(stop_calls)
    /\ app' = [app EXCEPT !.pc = "stopping"]
    /\ UNCHANGED <<engineVars, threadVars, last_stop, rendered, orphans, production_stops,
                   messagingVars, producers, tasks>>

\* stop_system: if not self.is_running: return
StopSystemTest ==
    /\ stop_calls.stack # << >>
    /\ Top.at = "test"
    /\ IF stop_system_returns(app)
       THEN /\ stop_calls' = [EndCall(stop_calls) EXCEPT
                                 !.log = Append(@, Did("test", "not running", Top.number))]
            /\ app' = [app EXCEPT !.pc = IF stop_calls.finally THEN "exited" ELSE @]
       ELSE /\ stop_calls' = [stop_calls EXCEPT
                                 !.stack[Len(stop_calls.stack)].at = "clear",
                                 !.log = Append(@, Did("test", "running", Top.number))]
            /\ app' = app
    /\ UNCHANGED <<engineVars, threadVars, last_stop, rendered, orphans, production_stops,
                   messagingVars, producers, tasks>>

\* stop_system: self.is_running = False
StopSystemClear ==
    /\ stop_calls.stack # << >>
    /\ Top.at = "clear"
    /\ app' = [app EXCEPT !.is_running = FALSE]
    /\ stop_calls' = [stop_calls EXCEPT
                         !.stack[Len(stop_calls.stack)].at = "producers",
                         !.log = Append(@, Did("clear", "is_running", Top.number))]
    /\ UNCHANGED <<engineVars, threadVars, last_stop, rendered, orphans, production_stops,
                   messagingVars, producers, tasks>>

\* stop_system: for producer in self.producers: producer.stop_production()
StopSystemStopProducer ==
    /\ stop_calls.stack # << >>
    /\ Top.at = "producers"
    /\ Top.i < Len(app.producers)
    /\ producers' = [producers EXCEPT ![app.producers[Top.i + 1]] = stop_production(@)]
    /\ stop_calls' = [stop_calls EXCEPT
                         !.stack[Len(stop_calls.stack)].i = @ + 1,
                         !.log = Append(@, Did("stop_production", app.producers[Top.i + 1],
                                               Top.number))]
    /\ UNCHANGED <<engineVars, threadVars, last_stop, rendered, orphans, production_stops,
                   messagingVars, app, tasks>>

\* stop_system from the loop over the consumers to its end
StopSystemStopConsumers ==
    /\ stop_calls.stack # << >>
    /\ Top.at = "producers"
    /\ Top.i = Len(app.producers)
    /\ LET rest == stop_system_rest(consumers)
           after == IF rest.publishes = << >>
                    THEN [inboxes |-> inboxes, published |-> published]
                    ELSE publish(subscribed, inboxes, published, rest.publishes[1].channel,
                                 rest.publishes[1].message, TRUE)
           stopped == consumers_stopped(1)
           done == [k \in DOMAIN stopped |-> Did("stop_consumption", stopped[k], Top.number)]
                   \o (IF rest.publishes = << >>
                       THEN << >>
                       ELSE << Did("publish", "system_shutdown", Top.number) >>)
       IN  /\ consumers' = rest.consumers
           /\ inboxes' = after.inboxes
           /\ published' = after.published
           /\ stop_calls' = [EndCall(stop_calls) EXCEPT !.log = @ \o done]
    /\ app' = [app EXCEPT !.pc = IF stop_calls.finally THEN "exited" ELSE @]
    /\ UNCHANGED <<engineVars, threadVars, last_stop, rendered, orphans, production_stops,
                   envelopeVars, consumerVars, producers, tasks, workers, subscribed,
                   subscribed_at, handled, sent>>

NextShutdown ==
    \/ \E run_immediately \in BOOLEAN, ignore_schedule \in BOOLEAN, names \in ProducerLists :
          Run(run_immediately, ignore_schedule, names)
    \/ \E i \in DOMAIN Consumers : StartSystemConsumer(i)
    \/ StartSystemProducer
    \/ PublishStartup
    \/ SignalArrives
    \/ WaitAndStopCall
    \/ StartSystemRaises
    \/ StopSystemTest
    \/ StopSystemClear
    \/ StopSystemStopProducer
    \/ StopSystemStopConsumers

SpecShutdown == Init /\ [][NextShutdown]_vars

\* what a stop_system call does to the system
StopEffects == {"clear", "stop_production", "stop_consumption", "publish"}

\* C35: whatever stop_system calls the signal handler, wait_and_stop and the
\* finally clause of run() make, no producer and no consumer is stopped twice,
\* at most one system_shutdown event is published, and a call that finds the
\* system not running does nothing.
C35_StopSystemIdempotent ==
    LET log == stop_calls.log
    IN  /\ \A i, j \in DOMAIN log :
              (i < j /\ log[i].call \in StopEffects /\ log[i].call = log[j].call) =>
                  log[i].target # log[j].target
        /\ Cardinality(EventsPublished("system_shutdown")) <= 1
        /\ \A i, j \in DOMAIN log :
              (log[i] = Did("test", "not running", log[i].number) /\ log[j].number = log[i].number) =>
                  j = i

\* run() has ended after three stop_system calls: one stopped the producer
\* and was interrupted by a signal, the handler's call and the call of the
\* finally clause found the system not running
C35_Witness ==
    LET log == stop_calls.log
    IN  /\ app.pc = "exited"
        /\ stop_calls.begun >= 3
        /\ \E i \in DOMAIN log : log[i].call = "stop_production"
        /\ Cardinality({ i \in DOMAIN log : log[i] = Did("test", "not running", log[i].number) }) >= 2

----------------------------------------------------------------------------
(* Stopping a producer whose schedule runs (SpecStopProduction)            *)

\* producer.stop_production() on a started producer: what it leaves of the
\* producer, with the runs begun and the publish calls made until then
StopProduction(name) ==
    /\ producers[name].is_running
    /\ ~ production_stops[name].stopped
    /\ producers' = [producers EXCEPT ![name] = stop_production(@)]
    /\ production_stops' = [production_stops EXCEPT
                               ![name] = [stopped |-> TRUE, runs |-> Len(tasks),
                                          published |-> Len(published)]]
    /\ UNCHANGED <<engineVars, threadVars, last_stop, rendered, orphans, stop_calls,
                   messagingVars, app, tasks>>

\* producer.run_once(): _run_production_task starts a thread and returns
RunOnce(name) ==
    /\ Len(tasks) < MaxRuns
    /\ tasks' = Append(tasks, Task(name, "run_once", "started", << >>))
    /\ UNCHANGED <<engineVars, threadVars, last_stop, rendered, orphans, stop_calls,
                   production_stops, messagingVars, app, producers>>

NextStopProduction ==
    \/ \E name \in ProducerNames :
          /\ ~ production_stops[name].stopped
          /\ Len(tasks) < MaxRuns
          /\ StartProduction(name)
    \/ \E name \in ProducerNames : JobFires(name)
    \/ \E name \in ProducerNames : RunOnce(name)
    \/ \E name \in ProducerNames : StopProduction(name)
    \/ \E t \in DOMAIN tasks :
          \E historical_data \in FetchedHistories(tasks[t].producer) : ProduceData(t, historical_data)
    \/ \E t \in DOMAIN tasks : ProduceDataFails(t)
    \/ \E t \in DOMAIN tasks : PublishMessage(t)
    \/ \E t \in DOMAIN tasks : FinishTask(t)

SpecStopProduction == Init /\ [][NextStopProduction]_vars

============================================================================
